---- MODULE Spec2Model ----
(***************************************************************************)
(* NeuroForge core: the hybrid memory engine (agent/memory_engine.py) and  *)
(* the task queue / orchestrator (agent/task_agent.py).                    *)
(*                                                                         *)
(* Python values are tagged records [t, s, kids]; a string is a sequence   *)
(* of one-character strings, so that json.dumps can be rendered as text.   *)
(* Record ids (uuid4) are the integers 1..MaxRecords, handed out in order. *)
(* time.time() / datetime.now() read the variable `now`, which the         *)
(* environment advances; two readings may be equal (the clock's            *)
(* resolution is finite).                                                  *)
(***************************************************************************)
EXTENDS Integers, Sequences, FiniteSets, TLC

(***************************************************************************)
(* Bounds of the model.                                                    *)
(***************************************************************************)
MaxRecords == 3
MaxRam == 2
MaxTime == 1
MaxLimit == 1
MaxTasks == 3
MaxConcurrent == 2
MaxChainTasks == 1
MaxStopTasks == 1
MaxSearchRecords == 4
MaxSearchLimit == 1
MaxSessions == 2
MaxStarts == 3
MaxStops == 2

VARIABLES
    max_ram_size,       \* MemoryConfig.max_ram_size
    chromadb_available, \* CHROMADB_AVAILABLE
    buffer,             \* RAMBuffer._buffer: key -> MemoryContext
    access_times,       \* RAMBuffer._access_times, in dict order: <<key, time>>
    persistent,         \* PersistentStore (LMDB): key -> serialized MemoryContext
    vector_store,       \* VectorStore: documents in insertion order
    next_id,            \* number of uuid4 values drawn so far
    now,                \* the wall clock
    use_order,          \* history: cached keys, least recently used first
    reread,             \* history: cached keys read (get hit) since their put
    evictions,          \* history: evictions made by the last operation
    stored,             \* history: id returned by store_memory -> content given
    failed,             \* history: ids drawn by store_memory calls that raised
    closed,             \* MemoryEngine.close() was called (the LMDB env is closed)
    session,            \* MemoryEngine.session_id: the number of the engine instance
    ret                 \* the last operation and what it returned

memvars == <<max_ram_size, chromadb_available, buffer, access_times, persistent,
             vector_store, next_id, now, use_order, reread, evictions, stored,
             failed, closed, session, ret>>

VARIABLES
    max_concurrent,     \* TaskQueue.max_concurrent
    queue,              \* TaskQueue._queue: the heap list of the PriorityQueue
    tasks,              \* the Task objects made by submit_task: id -> Task
    next_task,          \* number of task ids (uuid4) drawn so far
    running,            \* keys of TaskQueue._running
    results,            \* TaskQueue._results: id -> TaskResult
    executor_running,   \* TaskAgent._executor_running
    executor_pc,        \* where the _task_executor coroutine of _executor_task stands
    exec,               \* the execute_task_chain coroutines: id -> frame
    enqueue_order,      \* history: task ids in the order add_task was called
    start_order         \* history: task ids in the order they were started

agentvars == <<max_concurrent, queue, tasks, next_task, running, results,
               executor_running, executor_pc, exec, enqueue_order, start_order>>

VARIABLES
    executor_task,      \* TaskAgent._executor_task: the number of the asyncio
                        \* Task start() created last (0: None)
    loops,              \* the _task_executor Tasks that have not ended:
                        \* number -> where the coroutine is suspended
    stop_awaits         \* number of a _task_executor Task -> how many stop()
                        \* calls are suspended in their await of it

loopvars == <<executor_task, loops, stop_awaits>>

(***************************************************************************)
(* Helpers on sequences and functions.                                     *)
(***************************************************************************)
Range(s) == {s[i] : i \in 1..Len(s)}

RECURSIVE SeqRemove(_, _)
SeqRemove(s, x) ==
    IF s = <<>> THEN <<>>
    ELSE IF Head(s) = x THEN SeqRemove(Tail(s), x)
    ELSE <<Head(s)>> \o SeqRemove(Tail(s), x)

RECURSIVE Concat(_)
Concat(ss) == IF ss = <<>> THEN <<>> ELSE Head(ss) \o Concat(Tail(ss))

Restrict(f, S) == [x \in S |-> f[x]]

Put(f, k, v) == [x \in DOMAIN f \cup {k} |-> IF x = k THEN v ELSE f[x]]

(* the element of a set of one element.  Only({e : v \in {x}}) is e with   *)
(* v the value of x, computed once, as the value of a local variable is    *)
Only(S) == CHOOSE y \in S : TRUE

Min2(a, b) == IF a <= b THEN a ELSE b

IsSubstring(q, s) ==
    \E i \in 0..(Len(s) - Len(q)) : \A j \in 1..Len(q) : s[i + j] = q[j]

(***************************************************************************)
(* Python values.                                                          *)
(***************************************************************************)
PyStr(s) == [t |-> "str", s |-> s, kids |-> <<>>]
PyInt(s) == [t |-> "int", s |-> s, kids |-> <<>>]
PyObj(s) == [t |-> "obj", s |-> s, kids |-> <<>>]
PyList(xs) == [t |-> "list", s |-> <<>>, kids |-> xs]
PyTuple(xs) == [t |-> "tuple", s |-> <<>>, kids |-> xs]
PyItem(k, v) == [t |-> "item", s |-> k, kids |-> <<v>>]
PyTupleKeyItem(v) == [t |-> "tuplekey", s |-> <<>>, kids |-> <<v>>]
PyDict(items) == [t |-> "dict", s |-> <<>>, kids |-> items]
JsonError == [t |-> "TypeError", s |-> <<>>, kids |-> <<>>]

(* str.lower() on the characters the model uses *)
LowerChar(c) == IF c = "A" THEN "a" ELSE IF c = "T" THEN "t" ELSE c
Lower(s) == [i \in 1..Len(s) |-> LowerChar(s[i])]

(***************************************************************************)
(* json.dumps / json.loads.  A JSON document is the tagged tree json.dumps *)
(* writes; json_text is its text.  A tuple is written as an array, and an  *)
(* array is read back as a list; an object json cannot write is written as *)
(* str(object) when default=str is given and raises TypeError otherwise; a *)
(* dict key that is a tuple raises TypeError either way.                   *)
(***************************************************************************)
RECURSIVE json_dumps(_, _)
json_dumps(v, default_str) ==
    Only({(Only({(CASE v.t = "str" -> [t |-> "jstr", s |-> v.s, kids |-> <<>>]
                    [] v.t = "int" -> [t |-> "jnum", s |-> v.s, kids |-> <<>>]
                    [] v.t = "obj" -> IF default_str
                                      THEN [t |-> "jstr", s |-> v.s, kids |-> <<>>]
                                      ELSE JsonError
                    [] v.t \in {"list", "tuple"} ->
                          IF bad THEN JsonError
                          ELSE [t |-> "jarr", s |-> <<>>, kids |-> ks]
                    [] v.t = "dict" ->
                          IF bad THEN JsonError
                          ELSE [t |-> "jobj", s |-> <<>>, kids |-> ks]
                    [] v.t = "item" ->
                          IF bad THEN JsonError
                          ELSE [t |-> "jmember", s |-> v.s, kids |-> ks]
                    [] OTHER -> JsonError) :
                 bad \in {\E i \in 1..Len(ks) : ks[i].t = "TypeError"}})) :
          ks \in {[i \in 1..Len(v.kids) |-> json_dumps(v.kids[i], default_str)]}})

RECURSIVE json_loads(_)
json_loads(j) ==
    LET ks == [i \in 1..Len(j.kids) |-> json_loads(j.kids[i])]
    IN  CASE j.t = "jstr" -> PyStr(j.s)
          [] j.t = "jnum" -> PyInt(j.s)
          [] j.t = "jarr" -> PyList(ks)
          [] j.t = "jobj" -> PyDict(ks)
          [] OTHER -> [t |-> "item", s |-> j.s, kids |-> ks]

RECURSIVE json_text(_)
json_text(j) ==
    LET parts == [i \in 1..Len(j.kids) |->
                    (IF i > 1 THEN <<",", " ">> ELSE <<>>) \o json_text(j.kids[i])]
        quoted(s) == <<"\"">> \o s \o <<"\"">>
    IN  CASE j.t = "jstr" -> quoted(j.s)
          [] j.t = "jnum" -> j.s
          [] j.t = "jarr" -> <<"[">> \o Concat(parts) \o <<"]">>
          [] j.t = "jobj" -> <<"{">> \o Concat(parts) \o <<"}">>
          [] OTHER -> quoted(j.s) \o <<":", " ">> \o json_text(j.kids[1])

(* str(datetime) and datetime.fromisoformat *)
datetime_str(d) == [iso |-> d]
fromisoformat(s) == s.iso

(***************************************************************************)
(* MemoryContext and its serialized form in the durable log.               *)
(***************************************************************************)
SessionId == 1
WorkspacePath == "workspace"

MemoryContext(id, content, tags, timestamp) ==
    [id |-> id, content |-> content, tags |-> tags, timestamp |-> timestamp,
     session_id |-> SessionId, workspace_path |-> WorkspacePath, git_hash |-> "None"]

NoContext == MemoryContext(0, PyDict(<<>>), PyList(<<>>), 0)

(* PersistentStore.store_context: json.dumps(asdict(context), default=str) *)
store_context_value(context) ==
    Only({(IF j[1].t = "TypeError" \/ j[2].t = "TypeError" THEN JsonError
           ELSE [t |-> "jrecord", id |-> context.id, content |-> j[1], tags |-> j[2],
                 timestamp |-> datetime_str(context.timestamp),
                 session_id |-> context.session_id,
                 workspace_path |-> context.workspace_path,
                 git_hash |-> context.git_hash]) :
          j \in {<<json_dumps(context.content, TRUE), json_dumps(context.tags, TRUE)>>}})

(* PersistentStore.get_context on a value that is present *)
get_context_value(value) ==
    [id |-> value.id, content |-> json_loads(value.content),
     tags |-> json_loads(value.tags),
     timestamp |-> fromisoformat(value.timestamp),
     session_id |-> value.session_id, workspace_path |-> value.workspace_path,
     git_hash |-> value.git_hash]

TagSet(tags) == {tags.kids[i].s : i \in 1..Len(tags.kids)}

(***************************************************************************)
(* RAMBuffer.  An operator takes and returns the buffer as a record rb:    *)
(* buffer and access_times are the object's two dicts; use_order, reread,  *)
(* evictions and cap_puts are history the claims are stated over.          *)
(***************************************************************************)
Keys(at) == {at[i][1] : i \in 1..Len(at)}

TimeOf(at, k) == LET i == CHOOSE i \in 1..Len(at) : at[i][1] = k IN at[i][2]

PosOf(sq, k) == CHOOSE i \in 1..Len(sq) : sq[i] = k

KeyOrder(at) == [i \in 1..Len(at) |-> at[i][1]]

(* min(self._access_times.keys(), key=lambda k: self._access_times[k]):    *)
(* the first key, in dict order, whose time is the least                   *)
MinAccessKey(at) ==
    LET i == CHOOSE i \in 1..Len(at) :
                /\ \A j \in 1..Len(at) : at[i][2] <= at[j][2]
                /\ \A j \in 1..(i - 1) : at[j][2] > at[i][2]
    IN  at[i][1]

SetTime(at, k, t) ==
    IF k \in Keys(at)
    THEN [i \in 1..Len(at) |-> IF at[i][1] = k THEN <<k, t>> ELSE at[i]]
    ELSE Append(at, <<k, t>>)

DelTime(at, k) ==
    LET keep == {i \in 1..Len(at) : at[i][1] # k}
        F[i \in 0..Len(at)] ==
            IF i = 0 THEN <<>>
            ELSE IF i \in keep THEN Append(F[i - 1], at[i]) ELSE F[i - 1]
    IN  F[Len(at)]

evict_lru(rb) ==
    IF rb.access_times = <<>> THEN rb
    ELSE LET lru_key == MinAccessKey(rb.access_times)
         IN  [rb EXCEPT !.buffer = Restrict(@, DOMAIN @ \ {lru_key}),
                        !.access_times = DelTime(@, lru_key),
                        !.use_order = SeqRemove(@, lru_key),
                        !.reread = @ \ {lru_key},
                        !.evictions = Append(@, [key |-> lru_key,
                                                 access_times |-> rb.access_times,
                                                 use_order |-> rb.use_order,
                                                 reread |-> rb.reread])]

RAMBuffer_put(rb, key, context, t) ==
    LET full == Cardinality(DOMAIN rb.buffer) >= max_ram_size
        r1 == IF full
              THEN [evict_lru(rb) EXCEPT !.cap_puts = @ + 1]
              ELSE rb
    IN  [r1 EXCEPT !.buffer = Put(@, key, context),
                   !.access_times = SetTime(@, key, t),
                   !.use_order = Append(SeqRemove(@, key), key),
                   !.reread = @ \ {key}]

RAMBuffer_get(rb, key, t) ==
    IF key \in DOMAIN rb.buffer
    THEN [rb EXCEPT !.access_times = SetTime(@, key, t),
                    !.use_order = Append(SeqRemove(@, key), key),
                    !.reread = @ \cup {key}]
    ELSE rb

(* the RAMBuffer as the variables hold it, before an operation *)
RB == [buffer |-> buffer, access_times |-> access_times, use_order |-> use_order,
       reread |-> reread, evictions |-> <<>>, cap_puts |-> 0]

SetRB(rb) ==
    /\ buffer' = rb.buffer
    /\ access_times' = rb.access_times
    /\ use_order' = rb.use_order
    /\ reread' = rb.reread
    /\ evictions' = rb.evictions

(***************************************************************************)
(* VectorStore.  Each document is json.dumps(context.content) (no          *)
(* default=), with the metadata add_context builds.                        *)
(***************************************************************************)
add_context_document(context) ==
    Only({(IF j.t = "TypeError" THEN JsonError
           ELSE [t |-> "doc", id |-> context.id, content |-> json_text(j),
                 tags |-> context.tags,
                 timestamp |-> datetime_str(context.timestamp),
                 session_id |-> context.session_id]) :
          j \in {json_dumps(context.content, FALSE)}})

(* a fallback of search_similar that returns every match, not the first   *)
(* limit of them                                                           *)
simple_search_uncut(vs, query, limit) ==
    LET match == {i \in 1..Len(vs) :
                    IsSubstring(Lower(query), Lower(vs[i].content))}
        before(i, j) == \/ Len(vs[i].content) < Len(vs[j].content)
                        \/ Len(vs[i].content) = Len(vs[j].content) /\ i < j
        rank(i) == 1 + Cardinality({j \in match : before(j, i)})
    IN  [r \in 1..Cardinality(match) |-> vs[CHOOSE i \in match : rank(i) = r].id]

(* the fallback of search_similar: the documents that contain the query,   *)
(* by score = len(query) / len(content), highest first; list.sort is       *)
(* stable, so equal scores keep the dict's order                           *)
simple_search(vs, query, limit) ==
    LET match == {i \in 1..Len(vs) :
                    IsSubstring(Lower(query), Lower(vs[i].content))}
        \* score(i) > score(j)  iff  len(content i) < len(content j)
        before(i, j) == \/ Len(vs[i].content) < Len(vs[j].content)
                        \/ Len(vs[i].content) = Len(vs[j].content) /\ i < j
        rank(i) == 1 + Cardinality({j \in match : before(j, i)})
        ranked == [r \in 1..Cardinality(match) |->
                      vs[CHOOSE i \in match : rank(i) = r].id]
    IN  SubSeq(ranked, 1, Min2(limit, Len(ranked)))

(* what collection.query may answer: n_results distinct ids of the         *)
(* collection, in the order of a ranking this model does not know          *)
RECURSIVE Arrangements(_, _)
Arrangements(S, n) ==
    IF n = 0 \/ S = {} THEN {<<>>}
    ELSE UNION {{<<x>> \o r : r \in Arrangements(S \ {x}, n - 1)} : x \in S}

query_results(vs, limit) ==
    Arrangements({vs[i].id : i \in 1..Len(vs)}, Min2(limit, Len(vs)))

(* a read that stamps the record it loads from the durable log with the    *)
(* time of the read                                                        *)
retrieve_memory_restamp(m, context_id, t) ==
    IF context_id \in DOMAIN m.rb.buffer
    THEN [m |-> [m EXCEPT !.rb = RAMBuffer_get(@, context_id, t)], found |-> TRUE,
          ctx |-> m.rb.buffer[context_id], hit |-> TRUE, raised |-> FALSE]
    ELSE IF context_id \in DOMAIN m.persistent /\ ~m.closed
    THEN LET context == [get_context_value(m.persistent[context_id])
                            EXCEPT !.timestamp = t]
         IN  [m |-> [m EXCEPT !.rb = RAMBuffer_put(@, context_id, context, t)],
              found |-> TRUE, ctx |-> context, hit |-> FALSE, raised |-> FALSE]
    ELSE [m |-> m, found |-> FALSE, ctx |-> NoContext, hit |-> FALSE,
          raised |-> m.closed]

(***************************************************************************)
(* MemoryEngine.  An operator takes and returns the engine as a record m:  *)
(* rb (the RAMBuffer), persistent, vector_store, and next_id, stored and   *)
(* failed as the variables of those names.                                 *)
(***************************************************************************)
(* retrieve_memory: the engine after the call and what the call returns;  *)
(* on a cache miss the read of a closed LMDB env raises                    *)
retrieve_memory(m, context_id, t) ==
    IF context_id \in DOMAIN m.rb.buffer
    THEN [m |-> [m EXCEPT !.rb = RAMBuffer_get(@, context_id, t)], found |-> TRUE,
          ctx |-> m.rb.buffer[context_id], hit |-> TRUE, raised |-> FALSE]
    ELSE IF m.closed
    THEN [m |-> m, found |-> FALSE, ctx |-> NoContext, hit |-> FALSE, raised |-> TRUE]
    ELSE IF context_id \in DOMAIN m.persistent
    THEN LET context == get_context_value(m.persistent[context_id])
         IN  [m |-> [m EXCEPT !.rb = RAMBuffer_put(@, context_id, context, t)],
              found |-> TRUE, ctx |-> context, hit |-> FALSE, raised |-> FALSE]
    ELSE [m |-> m, found |-> FALSE, ctx |-> NoContext, hit |-> FALSE, raised |-> FALSE]

(* a loop of search_memories that does not look at the tags *)
RECURSIVE search_loop_unfiltered(_, _, _, _, _, _, _)
search_loop_unfiltered(ids, m, memories, tags, limit, t, dt) ==
    IF ids = <<>> THEN [m |-> m, memories |-> memories, t |-> t, raised |-> FALSE]
    ELSE Only({(IF r.raised
                THEN [m |-> r.m, memories |-> <<>>, t |-> t, raised |-> TRUE]
                ELSE IF ~r.found
                THEN search_loop_unfiltered(Tail(ids), r.m, memories, tags, limit, t, dt)
                ELSE IF Len(memories) + 1 >= limit
                THEN [m |-> r.m, memories |-> Append(memories, r.ctx), t |-> t,
                      raised |-> FALSE]
                ELSE search_loop_unfiltered(Tail(ids), r.m, Append(memories, r.ctx),
                                            tags, limit, t, dt)) :
               r \in {retrieve_memory(m, Head(ids), t)}})

(* the loop of search_memories over the candidate ids; the clock reads t   *)
(* at the first retrieve_memory and dt more at each later one              *)
RECURSIVE search_loop(_, _, _, _, _, _, _)
search_loop(ids, m, memories, tags, limit, t, dt) ==
    IF ids = <<>> THEN [m |-> m, memories |-> memories, t |-> t, raised |-> FALSE]
    ELSE Only({(LET t2 == Min2(t + dt, MaxTime)
                IN  IF r.raised
                    THEN [m |-> r.m, memories |-> <<>>, t |-> t, raised |-> TRUE]
                    ELSE IF ~r.found
                    THEN search_loop(Tail(ids), r.m, memories, tags, limit, t2, dt)
                    ELSE IF tags # {} /\ TagSet(r.ctx.tags) \cap tags = {}
                    THEN search_loop(Tail(ids), r.m, memories, tags, limit, t2, dt)
                    ELSE IF Len(memories) + 1 >= limit
                    THEN [m |-> r.m, memories |-> Append(memories, r.ctx), t |-> t,
                          raised |-> FALSE]
                    ELSE search_loop(Tail(ids), r.m, Append(memories, r.ctx),
                                     tags, limit, t2, dt)) :
               r \in {retrieve_memory(m, Head(ids), t)}})

(* store_memory: the cache is written first, then the durable log, then    *)
(* the search index; an exception of a later write leaves the earlier      *)
(* ones.  durable_ok: whether LMDB accepts the write; a closed env never   *)
(* does.  The call returns the id (ok) or raises (durable says which write *)
(* raised).                                                                *)
store_memory(m, content, tags, durable_ok, t) ==
    Only({(Only({(LET durable == durable_ok /\ ~m.closed /\ w.value.t # "TypeError"
                      indexed == durable /\ w.doc.t # "TypeError"
                  IN  [m |-> [rb |-> w.rb,
                              persistent |-> IF durable
                                             THEN Put(m.persistent, context.id, w.value)
                                             ELSE m.persistent,
                              vector_store |-> IF indexed
                                               THEN Append(m.vector_store, w.doc)
                                               ELSE m.vector_store,
                              next_id |-> context.id,
                              stored |-> IF indexed
                                         THEN Put(m.stored, context.id, content)
                                         ELSE m.stored,
                              failed |-> IF durable THEN m.failed
                                         ELSE m.failed \cup {context.id},
                              closed |-> m.closed, session |-> m.session],
                       id |-> context.id, ok |-> indexed, durable |-> durable,
                       context |-> context]) :
                 w \in {[rb |-> RAMBuffer_put(m.rb, context.id, context, t),
                         value |-> store_context_value(context),
                         doc |-> add_context_document(context)]}})) :
          context \in {[MemoryContext(m.next_id + 1, content, tags, t)
                           EXCEPT !.session_id = m.session]}})

(* a close() that raises when the LMDB env is closed already *)
close_once(m) ==
    [m |-> [m EXCEPT !.rb = [@ EXCEPT !.buffer = <<>>, !.access_times = <<>>,
                                       !.use_order = <<>>, !.reread = {}],
                     !.closed = TRUE],
     raised |-> m.closed]

(* MemoryEngine.close: RAMBuffer.clear(), then PersistentStore.close()     *)
(* (lmdb's Environment.close(); a repeated call of it has no effect)       *)
close(m) ==
    [m |-> [m EXCEPT !.rb = [@ EXCEPT !.buffer = <<>>, !.access_times = <<>>,
                                       !.use_order = <<>>, !.reread = {}],
                     !.closed = TRUE],
     raised |-> FALSE]

(* the engine as the variables hold it, before an operation *)
Mem == [rb |-> RB, persistent |-> persistent, vector_store |-> vector_store,
        next_id |-> next_id, stored |-> stored, failed |-> failed,
        closed |-> closed, session |-> session]

SetMem(m) ==
    /\ SetRB(m.rb)
    /\ persistent' = m.persistent
    /\ vector_store' = m.vector_store
    /\ next_id' = m.next_id
    /\ stored' = m.stored
    /\ failed' = m.failed
    /\ closed' = m.closed
    /\ session' = m.session

(* what the variable ret keeps of the last call: the operation, the id it
   was about, whether it returned a value (ok), whether store_memory's
   durable write was made, whether retrieve_memory was served by the
   cache (hit), the number of records search_memories returned, and the
   number of RAMBuffer.put calls the operation made on a full buffer *)
Returned(op, id, ok, durable, hit, n, cap_puts) ==
    [op |-> op, id |-> id, ok |-> ok, durable |-> durable, hit |-> hit,
     n |-> n, cap_puts |-> cap_puts]

(***************************************************************************)
(* The inputs of the model.                                                *)
(***************************************************************************)
TASK == <<"t", "a", "s", "k">>
NOTE == <<"n", "o", "t", "e">>

ContentNative == PyDict(<<PyItem(<<"k">>, PyList(<<PyInt(<<"1">>), PyStr(<<"A">>)>>))>>)
ContentTuple == PyDict(<<PyItem(<<"k">>, PyTuple(<<PyInt(<<"1">>), PyStr(<<"b">>)>>))>>)
ContentObject == PyDict(<<PyItem(<<"k">>, PyObj(<<"d">>))>>)
ContentTupleKey == PyDict(<<PyTupleKeyItem(PyStr(<<"a">>))>>)

NoteTags == PyList(<<PyStr(NOTE)>>)
TaskTags == PyList(<<PyStr(TASK)>>)

(* the (content, tags) arguments of store_memory *)
StoreInputs == {<<ContentNative, NoteTags>>, <<ContentTuple, TaskTags>>,
                <<ContentObject, NoteTags>>, <<ContentTupleKey, TaskTags>>}
Queries == {<<"a">>, <<"k">>}
TagFilters == {{}, {TASK}}

(***************************************************************************)
(* TaskQueue.  self._queue is an asyncio.PriorityQueue of                  *)
(* (-priority, created_at, task): a list kept as a binary heap by          *)
(* heapq.heappush / heappop.  Tuples are compared item by item; two        *)
(* entries with equal -priority and created_at are compared by their       *)
(* Task, and Task (a dataclass without order=True) has no "<": the         *)
(* comparison raises TypeError.                                            *)
(***************************************************************************)
Entry(task) == [np |-> 0 - task.priority, created_at |-> task.created_at,
                task |-> task.id]

Compare(a, b) ==
    IF a.np # b.np THEN (IF a.np < b.np THEN "lt" ELSE "ge")
    ELSE IF a.created_at # b.created_at
    THEN (IF a.created_at < b.created_at THEN "lt" ELSE "ge")
    ELSE IF a.task = b.task THEN "ge"
    ELSE "TypeError"

Swap(h, i, j) == [h EXCEPT ![i] = h[j], ![j] = h[i]]

(* heapq's siftdown: move h[pos] up while it is less than its parent *)
RECURSIVE siftdown(_, _, _)
siftdown(h, startpos, pos) ==
    IF pos > startpos
    THEN LET parentpos == pos \div 2
             cmp == Compare(h[pos], h[parentpos])
         IN  IF cmp = "TypeError" THEN [heap |-> h, err |-> TRUE]
             ELSE IF cmp = "lt" THEN siftdown(Swap(h, pos, parentpos), startpos, parentpos)
             ELSE [heap |-> h, err |-> FALSE]
    ELSE [heap |-> h, err |-> FALSE]

(* heapq's siftup: bubble the smaller child up until a leaf is reached ... *)
RECURSIVE siftup_leaf(_, _)
siftup_leaf(h, pos) ==
    IF 2 * pos <= Len(h)
    THEN LET left == 2 * pos
             cmp == IF left + 1 <= Len(h) THEN Compare(h[left], h[left + 1])
                    ELSE "lt"
             childpos == IF cmp = "lt" THEN left ELSE left + 1
         IN  IF cmp = "TypeError" THEN [heap |-> h, err |-> TRUE, pos |-> pos]
             ELSE siftup_leaf(Swap(h, pos, childpos), childpos)
    ELSE [heap |-> h, err |-> FALSE, pos |-> pos]

(* ... then sift the item down from there to its place *)
siftup(h, pos) ==
    LET d == siftup_leaf(h, pos)
    IN  IF d.err THEN [heap |-> d.heap, err |-> TRUE]
        ELSE siftdown(d.heap, pos, d.pos)

(* the item is appended before it is sifted: it stays in the list when the *)
(* sift raises                                                             *)
heappush(h, item) == siftdown(Append(h, item), 1, Len(h) + 1)

(* a pop that returns the root and leaves it in the list *)
heappop_kept(h) == [heap |-> h, item |-> h[1], err |-> FALSE]

(* the last item is moved to the root before it is sifted: when the sift   *)
(* raises, the item that was the root is in no list and is not returned    *)
heappop(h) ==
    LET n == Len(h)
        rest == SubSeq(h, 1, n - 1)
    IN  IF n = 1 THEN [heap |-> <<>>, item |-> h[1], err |-> FALSE]
        ELSE LET r == siftup([rest EXCEPT ![1] = h[n]], 1)
             IN  [heap |-> r.heap, item |-> h[1], err |-> r.err]

(***************************************************************************)
(* Strings of the records the TaskAgent stores.                            *)
(***************************************************************************)
DigitChars == <<"0", "1", "2", "3", "4", "5", "6", "7", "8", "9">>

RECURSIVE IntChars(_)
IntChars(n) ==
    IF n < 10 THEN <<DigitChars[n + 1]>>
    ELSE IntChars(n \div 10) \o <<DigitChars[(n % 10) + 1]>>

S_task_id == <<"t", "a", "s", "k", "_", "i", "d">>
S_name == <<"n", "a", "m", "e">>
S_plugins == <<"p", "l", "u", "g", "i", "n", "s">>
S_plugin == <<"p", "l", "u", "g", "i", "n">>
S_parameters == <<"p", "a", "r", "a", "m", "e", "t", "e", "r", "s">>
S_status == <<"s", "t", "a", "t", "u", "s">>
S_output == <<"o", "u", "t", "p", "u", "t">>
S_step == <<"s", "t", "e", "p">>
S_final_output == <<"f", "i", "n", "a", "l", "_", "o", "u", "t", "p", "u", "t">>
S_error == <<"e", "r", "r", "o", "r">>
S_pending == <<"p", "e", "n", "d", "i", "n", "g">>
S_completed == <<"c", "o", "m", "p", "l", "e", "t", "e", "d">>
S_failed == <<"f", "a", "i", "l", "e", "d">>
S_plugin_output == <<"p", "l", "u", "g", "i", "n", "_", "o", "u", "t", "p", "u", "t">>
S_message == <<"m", "e", "s", "s", "a", "g", "e">>

StrList(names) == PyList([i \in 1..Len(names) |-> PyStr(names[i])])

(* a dict built by assigning d[key] = value for the keys in order: a key   *)
(* assigned twice keeps its first position and its last value              *)
RECURSIVE DictItems(_, _)
DictItems(keys, value) ==
    IF keys = <<>> THEN <<>>
    ELSE LET k == keys[Len(keys)]
             front == DictItems(SubSeq(keys, 1, Len(keys) - 1), value)
         IN  IF k \in Range(SubSeq(keys, 1, Len(keys) - 1)) THEN front
             ELSE Append(front, PyItem(k, value[k]))

(* chain_output as a Python dict: the plugin names in the order they first *)
(* ran, each with its latest result                                        *)
OutputDict(order, chain_output) == PyDict(DictItems(order, chain_output))

(* the content submit_task stores *)
task_context(task) ==
    PyDict(<<PyItem(S_task_id, PyStr(IntChars(task.id))),
             PyItem(S_name, PyStr(task.name)),
             PyItem(S_plugins, StrList(task.plugin_chain)),
             PyItem(S_parameters, task.parameters),
             PyItem(S_status, PyStr(S_pending))>>)

(* an intermediate record that leaves the plugin's output out *)
intermediate_context_bare(task, plugin_name, plugin_result, step) ==
    PyDict(<<PyItem(S_task_id, PyStr(IntChars(task.id))),
             PyItem(S_plugin, PyStr(plugin_name)),
             PyItem(S_step, PyInt(IntChars(step)))>>)

(* the contents execute_task_chain stores; execution_time is left out *)
intermediate_context(task, plugin_name, plugin_result, step) ==
    PyDict(<<PyItem(S_task_id, PyStr(IntChars(task.id))),
             PyItem(S_plugin, PyStr(plugin_name)),
             PyItem(S_output, plugin_result),
             PyItem(S_step, PyInt(IntChars(step)))>>)

final_context(task, order, chain_output) ==
    PyDict(<<PyItem(S_task_id, PyStr(IntChars(task.id))),
             PyItem(S_status, PyStr(S_completed)),
             PyItem(S_final_output, OutputDict(order, chain_output))>>)

error_context(task, error) ==
    PyDict(<<PyItem(S_task_id, PyStr(IntChars(task.id))),
             PyItem(S_status, PyStr(S_failed)),
             PyItem(S_error, PyStr(error))>>)

(***************************************************************************)
(* TaskAgent: the plugins registered, what a plugin call can come to, and  *)
(* execute_task_chain as a coroutine.  A frame holds the coroutine's       *)
(* locals; it is suspended only while a plugin call is awaited             *)
(* (pc = "plugin"), everything between two awaits runs in one step.        *)
(***************************************************************************)
PluginA == <<"a">>
PluginB == <<"b">>
PluginZ == <<"z">>

(* PluginManager._plugins: z is a name no plugin is registered under *)
Plugins == {PluginA, PluginB}

Result1 == PyDict(<<PyItem(S_message, PyStr(<<"m">>))>>)
Result2 == PyDict(<<PyItem(S_message, PyStr(<<"n">>))>>)

(* a plugin's execute, once awaited, returns a result or raises *)
PluginOutcomes == {[kind |-> "return", value |-> Result1],
                   [kind |-> "return", value |-> Result2],
                   [kind |-> "raise", value |-> PyStr(<<"b", "o", "o", "m">>)]}

(* what a step of the coroutine meets outside the agent: whether the       *)
(* plugin looked up accepts the parameters (validate_parameters), and      *)
(* whether LMDB accepts the write of the intermediate, the final and the   *)
(* error record                                                            *)
AllGood == [valid |-> TRUE, step_ok |-> TRUE, final_ok |-> TRUE, error_ok |-> TRUE]
ChainIO == [valid : BOOLEAN, step_ok : BOOLEAN, final_ok : BOOLEAN, error_ok : BOOLEAN]

(* the outcomes looked at under a load of short tasks *)
SchedOutcomes == {o \in PluginOutcomes : o.value \in {Result1, PyStr(<<"b", "o", "o", "m">>)}}

E_not_found(plugin_name) == <<"P", "l", "u", "g", "i", "n", " ", "'">> \o plugin_name \o <<"'", " ", "n", "o", "t", " ", "f", "o", "u", "n", "d">>
E_invalid(plugin_name) == <<"I", "n", "v", "a", "l", "i", "d", " ", "p", "a", "r", "a", "m", "e", "t", "e", "r", "s", " ", "f", "o", "r", " ", "p", "l", "u", "g", "i", "n", " ", "'">> \o plugin_name \o <<"'">>
E_store == <<"T", "y", "p", "e", "E", "r", "r", "o", "r">>

TaskPendingTags == PyList(<<PyStr(TASK), PyStr(S_pending)>>)
PluginOutputTags(plugin_name) ==
    PyList(<<PyStr(TASK), PyStr(S_plugin_output), PyStr(plugin_name)>>)
CompletedTags(task) == PyList(<<PyStr(TASK), PyStr(S_completed), PyStr(task.name)>>)
FailedTags == PyList(<<PyStr(TASK), PyStr(S_failed), PyStr(S_error)>>)

(* returned is history: submit_task returned the task's id *)
Task(id, name, plugin_chain, parameters, priority, created_at) ==
    [id |-> id, name |-> name, plugin_chain |-> plugin_chain,
     parameters |-> parameters, priority |-> priority, created_at |-> created_at,
     context_id |-> 0, returned |-> FALSE]

PyNone == [t |-> "None", s |-> <<>>, kids |-> <<>>]

TaskResult(task_id, status, output, error, memory_contexts) ==
    [task_id |-> task_id, status |-> status, output |-> output, error |-> error,
     memory_contexts |-> memory_contexts]

(* the frame of execute_task_chain when the coroutine is created *)
NewFrame ==
    [pc |-> "created", step |-> 0, task_memory |-> PyNone,
     execution_context |-> <<>>, chain_output |-> <<>>, order |-> <<>>,
     memory_contexts |-> <<>>, seen |-> <<>>, outs |-> <<>>,
     invoked |-> 0, returned |-> 0, result |-> PyNone, raised |-> FALSE]

(* the except branch: the error record is stored and a FAILED result is    *)
(* returned; when that store raises, the coroutine raises                  *)
chain_except(m, task, f, error, io, t) ==
    Only({(IF r.ok
           THEN [m |-> r.m,
                 f |-> [f EXCEPT !.pc = "finished",
                                 !.memory_contexts = Append(@, r.id),
                                 !.result = TaskResult(task.id, "failed", PyNone, error,
                                                       Append(f.memory_contexts, r.id))]]
           ELSE [m |-> r.m,
                 f |-> [f EXCEPT !.pc = "finished", !.raised = TRUE,
                                 !.result = TaskResult(task.id, "failed", PyNone,
                                                       E_store, <<>>)]]) :
          r \in {store_memory(m, error_context(task, error), FailedTags, io.error_ok, t)}})

(* after the chain's loop: the final record is stored and a COMPLETED      *)
(* result is returned                                                      *)
chain_final(m, task, f, io, t) ==
    Only({(IF r.ok
           THEN [m |-> r.m,
                 f |-> [f EXCEPT !.pc = "finished",
                                 !.memory_contexts = Append(@, r.id),
                                 !.result = TaskResult(task.id, "completed",
                                                       OutputDict(f.order, f.chain_output),
                                                       <<>>,
                                                       Append(f.memory_contexts, r.id))]]
           ELSE chain_except(r.m, task, f, E_store, io, t)) :
          r \in {store_memory(m, final_context(task, f.order, f.chain_output),
                              CompletedTags(task), io.final_ok, t)}})

(* a dispatch that calls execute without the lookup and without           *)
(* validate_parameters                                                     *)
chain_next_unchecked(m, task, f, io, t) ==
    IF f.step >= Len(task.plugin_chain) THEN chain_final(m, task, f, io, t)
    ELSE [m |-> m,
          f |-> [f EXCEPT !.pc = "plugin", !.step = @ + 1, !.invoked = @ + 1,
                          !.seen = Append(@, [plugin |-> task.plugin_chain[f.step + 1],
                                              context |-> f.execution_context,
                                              returned |-> f.returned])]]

(* the head of the loop, execute_plugin: the next plugin of the chain is   *)
(* looked up, its validate_parameters is asked, and its execute is called  *)
(* with the execution context as it stands; the coroutine is then          *)
(* suspended.  invoked counts the calls of execute; seen keeps, for each,  *)
(* the plugin called, the context it was given and the number of calls     *)
(* that had ended                                                          *)
chain_next(m, task, f, io, t) ==
    IF f.step >= Len(task.plugin_chain) THEN chain_final(m, task, f, io, t)
    ELSE LET plugin_name == task.plugin_chain[f.step + 1]
         IN  IF plugin_name \notin Plugins
             THEN chain_except(m, task, [f EXCEPT !.step = @ + 1],
                               E_not_found(plugin_name), io, t)
             ELSE IF ~io.valid
             THEN chain_except(m, task, [f EXCEPT !.step = @ + 1],
                               E_invalid(plugin_name), io, t)
             ELSE [m |-> m,
                   f |-> [f EXCEPT !.pc = "plugin", !.step = @ + 1,
                                   !.invoked = @ + 1,
                                   !.seen = Append(@, [plugin |-> plugin_name,
                                                       context |-> f.execution_context,
                                                       returned |-> f.returned])]]

(* the coroutine's first run: the task's record is read, the execution     *)
(* context is built and the loop is entered                                *)
chain_start(m, task, f, io, t) ==
    Only({(IF r.raised THEN chain_except(r.m, task, f, E_store, io, t)
           ELSE chain_next(r.m, task,
                           [f EXCEPT !.task_memory = IF r.found THEN r.ctx.content
                                                     ELSE PyDict(<<>>)], io, t)) :
          r \in {IF task.context_id # 0 THEN retrieve_memory(m, task.context_id, t)
                 ELSE [m |-> m, found |-> FALSE, ctx |-> NoContext, hit |-> FALSE,
                       raised |-> FALSE]}})

(* the plugin call awaited returns plugin_result: it is merged into the    *)
(* execution context and chain_output under the plugin's name, the         *)
(* intermediate record is stored, and the loop goes on                     *)
chain_merge(m, task, f, plugin_result, io, t) ==
    LET plugin_name == task.plugin_chain[f.step]
        execution_context == Put(f.execution_context, plugin_name, plugin_result)
        chain_output == Put(f.chain_output, plugin_name, plugin_result)
        order == IF plugin_name \in Range(f.order) THEN f.order
                 ELSE Append(f.order, plugin_name)
        step == Cardinality(DOMAIN chain_output)
        g == [f EXCEPT !.execution_context = execution_context,
                       !.chain_output = chain_output, !.order = order,
                       !.returned = @ + 1, !.outs = Append(@, plugin_result)]
    IN  Only({(IF r.ok
               THEN chain_next(r.m, task,
                               [g EXCEPT !.memory_contexts = Append(@, r.id)], io, t)
               ELSE chain_except(r.m, task, g, E_store, io, t)) :
              r \in {store_memory(m, intermediate_context(task, plugin_name, plugin_result, step),
                                  PluginOutputTags(plugin_name), io.step_ok, t)}})

(* the call of execute awaited ends: with a result or with an exception   *)
(* of the plugin                                                           *)
chain_resume(m, task, f, outcome, io, t) ==
    IF outcome.kind = "return" THEN chain_merge(m, task, f, outcome.value, io, t)
    ELSE chain_except(m, task, [f EXCEPT !.returned = @ + 1], outcome.value.s, io, t)

(* a status read that reports a task still in the queue as pending *)
get_task_status_pending(task_id) ==
    IF task_id \in running THEN "running"
    ELSE IF task_id \in DOMAIN results THEN results[task_id].status
    ELSE IF task_id \in DOMAIN tasks THEN "pending"
    ELSE "None"

(* get_task_status *)
get_task_status(task_id) ==
    IF task_id \in running THEN "running"
    ELSE IF task_id \in DOMAIN results THEN results[task_id].status
    ELSE "None"

(***************************************************************************)
(* The memory engine's operations, as a caller of the engine makes them.   *)
(***************************************************************************)
(* the engine after MemoryEngine.__init__ *)
EngineInit ==
    /\ buffer = <<>>
    /\ access_times = <<>>
    /\ persistent = <<>>
    /\ vector_store = <<>>
    /\ next_id = 0
    /\ now = 0
    /\ use_order = <<>>
    /\ reread = {}
    /\ evictions = <<>>
    /\ stored = <<>>
    /\ failed = {}
    /\ closed = FALSE
    /\ session = SessionId
    /\ ret = Returned("init", 0, TRUE, TRUE, FALSE, 0, 0)

(* the agent after TaskAgent.__init__ *)
TaskAgentInit ==
    /\ queue = <<>>
    /\ tasks = <<>>
    /\ next_task = 0
    /\ running = {}
    /\ results = <<>>
    /\ executor_running = FALSE
    /\ executor_pc = "none"
    /\ executor_task = 0
    /\ loops = <<>>
    /\ stop_awaits = <<>>
    /\ exec = <<>>
    /\ enqueue_order = <<>>
    /\ start_order = <<>>

(* a MemoryEngine used on its own *)
MemInit ==
    /\ max_ram_size \in 0..MaxRam
    /\ chromadb_available \in BOOLEAN
    /\ max_concurrent = MaxConcurrent
    /\ EngineInit
    /\ TaskAgentInit

StoreMemory(inputs, oks, max_records) ==
    \E input \in inputs, durable_ok \in oks :
        /\ next_id < max_records
        /\ \E r \in {store_memory(Mem, input[1], input[2], durable_ok, now)} :
               /\ SetMem(r.m)
               /\ ret' = Returned("store", r.id, r.ok, r.durable, FALSE, 0,
                                  r.m.rb.cap_puts)
        /\ UNCHANGED <<max_ram_size, chromadb_available, now>>
        /\ UNCHANGED <<agentvars, loopvars>>

RetrieveMemory ==
    \E context_id \in 1..MaxRecords :
        /\ \E r \in {retrieve_memory(Mem, context_id, now)} :
               /\ SetMem(r.m)
               /\ ret' = Returned("retrieve", context_id, r.found, TRUE, r.hit, 0,
                                  r.m.rb.cap_puts)
        /\ UNCHANGED <<max_ram_size, chromadb_available, now>>
        /\ UNCHANGED <<agentvars, loopvars>>

(* search_memories called with one of the tag filters and limits, the     *)
(* clock advancing by up to max_dt between two reads of it; full: ret      *)
(* keeps the arguments, the candidate ids the index gave and the records   *)
(* returned                                                                *)
SearchWith(op, tagsets, limits, max_dt, full) ==
    \E query \in (IF chromadb_available THEN {<<"k">>} ELSE Queries),
       tags \in tagsets, limit \in limits,
       dt \in (IF now < MaxTime THEN 0..max_dt ELSE {0}) :
        \E similar_ids \in IF chromadb_available
                           THEN query_results(vector_store, limit * 2)
                           ELSE {simple_search(vector_store, query, limit * 2)} :
            \E r \in {search_loop(similar_ids, Mem, <<>>, tags, limit, now, dt)} :
                /\ SetMem(r.m)
                /\ now' = r.t
                /\ ret' = IF full
                          THEN [op |-> op, ok |-> ~r.raised, query |-> query,
                                tags |-> tags, limit |-> limit,
                                similar_ids |-> similar_ids, memories |-> r.memories]
                          ELSE Returned(op, 0, ~r.raised, TRUE, FALSE,
                                        Len(r.memories), r.m.rb.cap_puts)
                /\ UNCHANGED <<max_ram_size, chromadb_available>>
                /\ UNCHANGED <<agentvars, loopvars>>

SearchMemories == SearchWith("search", TagFilters, 1..MaxLimit, 1, FALSE)

(* TaskAgent.search_task_history: search_memories(query, tags=['task'], limit) *)
SearchTaskHistory == SearchWith("history", {{TASK}}, 1..MaxSearchLimit, 0, TRUE)

(* The engine instance is gone (closed, or its process ended) and          *)
(* MemoryEngine(config) is constructed again over the same store paths:    *)
(* a new session id, an empty RAMBuffer, LMDB and the ChromaDB             *)
(* PersistentClient opened on what they hold, and, without ChromaDB, an    *)
(* empty _simple_store                                                     *)
Reopen ==
    /\ session < MaxSessions
    /\ session' = session + 1
    /\ closed' = FALSE
    /\ buffer' = <<>>
    /\ access_times' = <<>>
    /\ use_order' = <<>>
    /\ reread' = {}
    /\ evictions' = <<>>
    /\ vector_store' = IF chromadb_available THEN vector_store ELSE <<>>
    /\ ret' = Returned("init", 0, TRUE, TRUE, FALSE, 0, 0)
    /\ UNCHANGED <<max_ram_size, chromadb_available, persistent, next_id, now,
                   stored, failed>>
    /\ UNCHANGED <<agentvars, loopvars>>

Tick ==
    /\ now < MaxTime
    /\ now' = now + 1
    /\ UNCHANGED <<max_ram_size, chromadb_available, buffer, access_times,
                   persistent, vector_store, next_id, use_order, reread,
                   evictions, stored, failed, closed, session, ret>>
    /\ UNCHANGED <<agentvars, loopvars>>

MemNext ==
    \/ StoreMemory(StoreInputs, BOOLEAN, MaxRecords)
    \/ RetrieveMemory
    \/ SearchMemories
    \/ Tick

vars == <<memvars, agentvars, loopvars>>

SpecMem == MemInit /\ [][MemNext]_vars

(* the engine searched: records that all hold the query's "k", tagged note *)
(* or task, stored by one engine instance or by an earlier one             *)
SearchInputs == {<<ContentNative, NoteTags>>, <<ContentTuple, TaskTags>>}

SearchNext ==
    \/ StoreMemory(SearchInputs, {TRUE}, MaxSearchRecords)
    \/ SearchWith("search", TagFilters, 1..MaxSearchLimit, 0, TRUE)
    \/ SearchTaskHistory
    \/ Reopen

(* an engine whose RAMBuffer holds one record (max_ram_size = 0), so that   *)
(* the records searched are read from the cache and from the durable log   *)
SearchInit ==
    /\ max_ram_size = 0
    /\ chromadb_available \in BOOLEAN
    /\ max_concurrent = MaxConcurrent
    /\ EngineInit
    /\ TaskAgentInit

SpecSearch == SearchInit /\ [][SearchNext]_vars

(***************************************************************************)
(* The TaskAgent's operations and the steps of its coroutines.             *)
(***************************************************************************)
TaskName == <<"j">>
Parameters == PyDict(<<PyItem(S_message, PyStr(<<"h">>))>>)
ParametersTuple == PyDict(<<PyItem(S_message, PyTuple(<<PyStr(<<"h">>)>>))>>)
Priorities == {1, 5}

(* the tasks submitted when scheduling is looked at: one-plugin chains of  *)
(* every priority                                                          *)
SchedInputs == {<<chain, priority, Parameters>> :
                   chain \in {<<PluginA>>}, priority \in Priorities}

(* the tasks submitted when a chain's execution is looked at *)
ChainInputs == {<<chain, 1, parameters>> :
                   chain \in {<<>>, <<PluginA, PluginB>>,
                              <<PluginA, PluginA, PluginB>>,
                              <<PluginA, PluginZ, PluginB>>},
                   parameters \in {Parameters, ParametersTuple}}

AgentInit ==
    /\ max_ram_size = MaxRam
    /\ chromadb_available = FALSE
    /\ max_concurrent \in 1..MaxConcurrent
    /\ EngineInit
    /\ TaskAgentInit

Unchanged_config == UNCHANGED <<max_ram_size, chromadb_available, max_concurrent, ret>>

(* a start() that creates a _task_executor Task whatever the flag says *)
Start_unguarded ==
    /\ executor_task < MaxStarts
    /\ executor_running' = TRUE
    /\ executor_task' = executor_task + 1
    /\ loops' = Put(loops, executor_task + 1, "check")
    /\ executor_pc' = "check"
    /\ UNCHANGED <<memvars, stop_awaits, max_concurrent, queue, tasks, next_task,
                   running, results, exec, enqueue_order, start_order>>

(* TaskAgent.start: when the flag is clear it is set and a new             *)
(* _task_executor Task is created and kept in _executor_task; the Task it   *)
(* replaces there may not have ended yet (a stop() is awaiting it)         *)
Start ==
    /\ ~executor_running
    /\ executor_task < MaxStarts
    /\ executor_running' = TRUE
    /\ executor_task' = executor_task + 1
    /\ loops' = Put(loops, executor_task + 1, "check")
    /\ executor_pc' = "check"
    /\ UNCHANGED <<memvars, stop_awaits, max_concurrent, queue, tasks, next_task,
                   running, results, exec, enqueue_order, start_order>>

(* TaskAgent.submit_task: no await of it suspends, it runs in one step.    *)
(* The clock may have advanced (by dt) since it was last read.             *)
(* durable_ok: whether LMDB accepts the write of the pending record.       *)
SubmitTask(inputs, oks, max_tasks) ==
    \E input \in inputs, durable_ok \in oks,
       dt \in (IF now < MaxTime THEN {0, 1} ELSE {0}) :
        /\ next_task < max_tasks
        /\ now' = now + dt
        /\ \E task \in {Task(next_task + 1, TaskName, input[1], input[3],
                             input[2], now')} :
           \E r \in {store_memory(Mem, task_context(task), TaskPendingTags, durable_ok, now')} :
               /\ SetMem(r.m)
               /\ next_task' = next_task + 1
               /\ IF r.ok
                  THEN LET queued == [task EXCEPT !.context_id = r.id]
                           h == heappush(queue, Entry(queued))
                       IN  /\ queue' = h.heap
                           /\ tasks' = Put(tasks, task.id,
                                           [queued EXCEPT !.returned = ~h.err])
                           /\ enqueue_order' = Append(enqueue_order, task.id)
                  ELSE UNCHANGED <<queue, tasks, enqueue_order>>
        /\ UNCHANGED <<running, results, executor_running, executor_pc, exec,
                       start_order>>
        /\ Unchanged_config
        /\ UNCHANGED loopvars

(* the _task_executor Task k goes on to pc ("ended": its coroutine          *)
(* returns); executor_pc follows the Task that _executor_task refers to    *)
SetLoop(k, pc) ==
    /\ loops' = IF pc = "ended" THEN Restrict(loops, DOMAIN loops \ {k})
                ELSE [loops EXCEPT ![k] = pc]
    /\ executor_pc' = IF k # executor_task THEN executor_pc
                      ELSE IF pc = "ended" THEN "stopped" ELSE pc

(* the test of the cap made with > in place of >= *)
ExecutorCheck_above ==
    \E k \in DOMAIN loops :
        /\ loops[k] = "check"
        /\ SetLoop(k, IF ~executor_running THEN "ended"
                      ELSE IF Cardinality(running) > max_concurrent THEN "check"
                      ELSE "get")
        /\ UNCHANGED <<memvars, executor_task, stop_awaits, max_concurrent, queue,
                       tasks, next_task, running, results, executor_running, exec,
                       enqueue_order, start_order>>

(* _task_executor, resumed from a sleep (or run for the first time): the   *)
(* flag is read at the head of the loop, then the cap is tested: sleep and *)
(* test again, or go on to get_next_task                                   *)
ExecutorCheck ==
    \E k \in DOMAIN loops :
        /\ loops[k] = "check"
        /\ SetLoop(k, IF ~executor_running THEN "ended"
                      ELSE IF Cardinality(running) >= max_concurrent THEN "check"
                      ELSE "get")
        /\ UNCHANGED <<memvars, executor_task, stop_awaits, max_concurrent, queue,
                       tasks, next_task, running, results, executor_running, exec,
                       enqueue_order, start_order>>

(* _task_executor, get_next_task and what follows it.  On an empty queue   *)
(* the wait times out and None is returned; otherwise heappop runs: when   *)
(* it raises, the loop's except branch sleeps and the loop goes on, when   *)
(* it returns a task, the task's coroutine is created and registered as    *)
(* running, and the flag is read at the head of the loop.                  *)
(* A Task cancelled while it is suspended in asyncio.wait_for may get the  *)
(* queue's item all the same: wait_for (Python 3.8 to 3.11) returns the    *)
(* result of a get() that has completed and drops the cancellation         *)
ExecutorGet ==
    \E k \in DOMAIN loops :
        /\ \/ loops[k] = "get"
           \/ loops[k] = "cancelled_get" /\ queue # <<>>
        /\ IF queue = <<>>
           THEN /\ SetLoop(k, "check")
                /\ UNCHANGED <<queue, running, exec, start_order>>
           ELSE LET h == heappop(queue)
                IN  /\ queue' = h.heap
                    /\ IF h.err
                       THEN /\ SetLoop(k, "check")
                            /\ UNCHANGED <<running, exec, start_order>>
                       ELSE /\ SetLoop(k, IF executor_running THEN "check" ELSE "ended")
                            /\ running' = running \cup {h.item.task}
                            /\ exec' = Put(exec, h.item.task, NewFrame)
                            /\ start_order' = Append(start_order, h.item.task)
        /\ UNCHANGED <<memvars, executor_task, stop_awaits, max_concurrent, tasks,
                       next_task, results, executor_running, enqueue_order>>

(* execute_task_chain, from its first line to its first await of a plugin  *)
(* (or to its return, when no plugin call is awaited)                      *)
ChainStart(ios) ==
    \E task_id \in DOMAIN exec, io \in ios :
        /\ exec[task_id].pc = "created"
        /\ \E r \in {chain_start(Mem, tasks[task_id], exec[task_id], io, now)} :
               /\ SetMem(r.m)
               /\ exec' = [exec EXCEPT ![task_id] = r.f]
        /\ UNCHANGED <<now, queue, tasks, next_task, running, results,
                       executor_running, executor_pc, enqueue_order, start_order>>
        /\ Unchanged_config
        /\ UNCHANGED loopvars

(* execute_task_chain, from the end of the plugin call it awaits to its    *)
(* next await of a plugin (or to its return)                               *)
PluginDone(outcomes, ios) ==
    \E task_id \in DOMAIN exec, outcome \in outcomes, io \in ios :
        /\ exec[task_id].pc = "plugin"
        /\ \E r \in {chain_resume(Mem, tasks[task_id], exec[task_id], outcome, io, now)} :
               /\ SetMem(r.m)
               /\ exec' = [exec EXCEPT ![task_id] = r.f]
        /\ UNCHANGED <<now, queue, tasks, next_task, running, results,
                       executor_running, executor_pc, enqueue_order, start_order>>
        /\ Unchanged_config
        /\ UNCHANGED loopvars

(* add_result that takes the task out of _running and keeps no result *)
add_result_unrecorded(rs, rn, result) ==
    [results |-> rs, running |-> rn \ {result.task_id}]

(* TaskQueue.add_result on the queue's _results (rs) and _running (rn) *)
add_result(rs, rn, result) ==
    [results |-> Put(rs, result.task_id, result),
     running |-> rn \ {result.task_id}]

(* a completion handler that records the coroutine's result and lets its   *)
(* exception go                                                            *)
HandleTaskCompletion_uncaught ==
    \E task_id \in DOMAIN exec :
        /\ exec[task_id].pc = "finished"
        /\ LET f == exec[task_id]
               q == IF f.raised THEN [results |-> results, running |-> running]
                    ELSE add_result(results, running, f.result)
           IN  /\ results' = q.results
               /\ running' = q.running
        /\ exec' = [exec EXCEPT ![task_id].pc = "recorded"]
        /\ UNCHANGED <<memvars, loopvars, max_concurrent, queue, tasks, next_task,
                       executor_running, executor_pc, enqueue_order, start_order>>

(* _handle_task_completion: the coroutine's result, or a FAILED result     *)
(* made of its exception, is recorded and the task leaves the running set  *)
HandleTaskCompletion ==
    \E task_id \in DOMAIN exec :
        /\ exec[task_id].pc = "finished"
        /\ LET f == exec[task_id]
               result == IF f.raised
                         THEN TaskResult(task_id, "failed", PyNone, f.result.error, PyNone)
                         ELSE f.result
               q == add_result(results, running, result)
           IN  /\ results' = q.results
               /\ running' = q.running
        /\ exec' = [exec EXCEPT ![task_id].pc = "recorded"]
        /\ UNCHANGED <<memvars, loopvars, max_concurrent, queue, tasks, next_task,
                       executor_running, executor_pc, enqueue_order, start_order>>

(* what the variable ret keeps of a close() call: whether it returned (ok) *)
(* and whether the engine had been closed before it (again)                *)
Closed(ok, again) == [op |-> "close", ok |-> ok, again |-> again]

(* the number of stop() calls suspended in their await *)
StopsAwaiting ==
    Cardinality({w \in (DOMAIN stop_awaits) \X (1..MaxStops) : w[2] <= stop_awaits[w[1]]})

(* TaskAgent.stop, to its await of the executor: the flag is cleared, the  *)
(* Task in _executor_task (suspended in a sleep or in get_next_task, or    *)
(* not run yet) is cancelled, and stop() is suspended until it has ended   *)
StopCancel ==
    /\ executor_task \in DOMAIN loops
    /\ StopsAwaiting < MaxStops
    /\ executor_running' = FALSE
    /\ loops' = [loops EXCEPT ![executor_task] = IF @ = "get" THEN "cancelled_get"
                                                 ELSE IF @ = "check" THEN "cancelled"
                                                 ELSE @]
    /\ executor_pc' = "cancelled"
    /\ stop_awaits' = Put(stop_awaits, executor_task,
                          IF executor_task \in DOMAIN stop_awaits
                          THEN stop_awaits[executor_task] + 1 ELSE 1)
    /\ UNCHANGED <<memvars, executor_task, max_concurrent, queue, tasks, next_task,
                   running, results, exec, enqueue_order, start_order>>

(* a cancelled _task_executor Task is resumed with CancelledError, which   *)
(* the loop's except Exception does not catch: the Task ends               *)
ExecutorCancelled ==
    \E k \in DOMAIN loops :
        /\ loops[k] \in {"cancelled", "cancelled_get"}
        /\ SetLoop(k, "ended")
        /\ UNCHANGED <<memvars, executor_task, stop_awaits, max_concurrent, queue,
                       tasks, next_task, running, results, executor_running, exec,
                       enqueue_order, start_order>>

(* TaskAgent.stop, after the Task it awaits has ended: it calls            *)
(* MemoryEngine.close() and returns.  The coroutines of the running tasks  *)
(* are neither awaited nor cancelled                                       *)
StopClose ==
    \E k \in DOMAIN stop_awaits :
        /\ k \notin DOMAIN loops
        /\ stop_awaits' = IF stop_awaits[k] = 1
                          THEN Restrict(stop_awaits, DOMAIN stop_awaits \ {k})
                          ELSE [stop_awaits EXCEPT ![k] = @ - 1]
        /\ \E r \in {close(Mem)} :
               /\ SetMem(r.m)
               /\ ret' = Closed(~r.raised, closed)
        /\ UNCHANGED <<max_ram_size, chromadb_available, now>>
        /\ UNCHANGED <<agentvars, executor_task, loops>>

(* TaskAgent.stop when _executor_task is None or has ended (an await of a  *)
(* finished Task does not suspend): the flag is cleared and                *)
(* MemoryEngine.close() is called, in one step                             *)
StopIdle ==
    /\ executor_task \notin DOMAIN loops
    /\ executor_running' = FALSE
    /\ \E r \in {close(Mem)} :
           /\ SetMem(r.m)
           /\ ret' = Closed(~r.raised, closed)
    /\ UNCHANGED <<max_ram_size, chromadb_available, now>>
    /\ UNCHANGED <<max_concurrent, queue, tasks, next_task, running, results,
                   executor_pc, exec, enqueue_order, start_order>>
    /\ UNCHANGED loopvars

(* the agent under a load of short tasks *)
AgentNext ==
    \/ Start
    \/ SubmitTask(SchedInputs, {TRUE}, MaxTasks)
    \/ ExecutorCheck
    \/ ExecutorGet
    \/ ChainStart({AllGood})
    \/ PluginDone(SchedOutcomes, {AllGood})
    \/ HandleTaskCompletion

SpecAgent == AgentInit /\ [][AgentNext]_vars

(* the agent running chains of several plugins *)
ChainNext ==
    \/ Start
    \/ SubmitTask(ChainInputs, BOOLEAN, MaxChainTasks)
    \/ ExecutorCheck
    \/ ExecutorGet
    \/ ChainStart(ChainIO)
    \/ PluginDone(PluginOutcomes, ChainIO)
    \/ HandleTaskCompletion
    \/ Tick

SpecChain == AgentInit /\ [][ChainNext]_vars

(* the agent started, loaded and stopped *)
StopNext ==
    \/ Start
    \/ SubmitTask(SchedInputs, {TRUE}, MaxStopTasks)
    \/ ExecutorCheck
    \/ ExecutorGet
    \/ ChainStart({AllGood})
    \/ PluginDone(SchedOutcomes, {AllGood})
    \/ HandleTaskCompletion
    \/ StopCancel
    \/ ExecutorCancelled
    \/ StopClose
    \/ StopIdle

(* the agent running tasks whose plugins return and whose records are      *)
(* stored                                                                  *)
LiveNext ==
    \/ Start
    \/ SubmitTask(SchedInputs, {TRUE}, MaxTasks)
    \/ ExecutorCheck
    \/ ExecutorGet
    \/ ChainStart({AllGood})
    \/ PluginDone({o \in SchedOutcomes : o.kind = "return"}, {AllGood})
    \/ HandleTaskCompletion

(* The event loop runs every callback that is ready, and the plugins       *)
(* terminate, for as long as the program keeps the loop running: until     *)
(* stop() has returned.  stop() awaits the executor alone, and the caller  *)
(* (test_core.main) returns after it, which ends the loop.                 *)
LoopFairness ==
    /\ WF_vars(~closed /\ ExecutorCheck)
    /\ WF_vars(~closed /\ ExecutorGet)
    /\ WF_vars(~closed /\ ChainStart({AllGood}))
    /\ WF_vars(~closed /\ PluginDone(SchedOutcomes, {AllGood}))
    /\ WF_vars(~closed /\ HandleTaskCompletion)
    /\ WF_vars(ExecutorCancelled)
    /\ WF_vars(StopClose)

SpecStop == AgentInit /\ [][StopNext]_vars /\ LoopFairness

(* start() is called, and the loop runs on: nothing closes the engine here *)
SpecLive ==
    /\ AgentInit /\ [][LiveNext]_vars
    /\ WF_vars(Start)
    /\ LoopFairness


(***************************************************************************)
(* Claims about the memory engine (checked under SpecMem).                 *)
(***************************************************************************)
EvictsOldest(e) ==
    \A k \in Keys(e.access_times) \ {e.key} :
        \/ TimeOf(e.access_times, e.key) < TimeOf(e.access_times, k)
        \/ /\ TimeOf(e.access_times, e.key) = TimeOf(e.access_times, k)
           /\ PosOf(KeyOrder(e.access_times), e.key) < PosOf(KeyOrder(e.access_times), k)

(* no cached key was read since its put: the first-inserted key goes *)
FirstInserted(e) == e.reread = {} => e.key = e.access_times[1][1]

(* a key that was read is not evicted while a key that was in the buffer   *)
(* at that read, and was never read itself, stays                          *)
ReadProtects(e) ==
    e.key \in e.reread =>
        \A j \in Keys(e.access_times) \ e.reread :
            PosOf(e.use_order, e.key) < PosOf(e.use_order, j)

C2_EvictsOldest ==
    max_ram_size >= 1 =>
        /\ Len(evictions) = ret.cap_puts
        /\ \A i \in 1..Len(evictions) : EvictsOldest(evictions[i])

C2_FirstInserted ==
    max_ram_size >= 1 => \A i \in 1..Len(evictions) : FirstInserted(evictions[i])

C2_ReadProtects ==
    max_ram_size >= 1 => \A i \in 1..Len(evictions) : ReadProtects(evictions[i])

(* C2: for a RAMBuffer of capacity N >= 1, a put on a full buffer evicts   *)
(* exactly one entry, the one whose last access is the oldest (ties by     *)
(* insertion order); so with no reads the first-inserted key is evicted,   *)
(* and a key that was read after its insertion is not evicted before a     *)
(* key that was never re-read.                                             *)
C2_LRUEviction == C2_EvictsOldest /\ C2_FirstInserted /\ C2_ReadProtects

(* C3: the cache tier never holds more records than max_ram_size. *)
C3_CacheBound == Cardinality(DOMAIN buffer) <= max_ram_size

RECURSIVE IsJsonNative(_)
IsJsonNative(v) ==
    /\ v.t \in {"str", "int", "list", "dict", "item"}
    /\ \A i \in 1..Len(v.kids) : IsJsonNative(v.kids[i])

DurablePresent ==
    \A id \in DOMAIN stored :
        /\ id \in DOMAIN persistent
        /\ persistent[id] = store_context_value(
               MemoryContext(id, stored[id], json_loads(persistent[id].tags),
                             fromisoformat(persistent[id].timestamp)))

DurableKept ==
    \A id \in DOMAIN persistent :
        id \in DOMAIN persistent' /\ persistent'[id] = persistent[id]

(* C4: every id store_memory returned is in the durable log and stays      *)
(* there unchanged, and retrieve_memory(id) returns the stored content,    *)
(* also after the record was evicted from the cache.                       *)
C4_DurableExact ==
    /\ [](DurablePresent /\ \A id \in DOMAIN stored :
            LET r == retrieve_memory(Mem, id, now)
            IN  r.found /\ r.ctx.id = id /\ r.ctx.content = stored[id])
    /\ [][DurableKept]_vars

(* what holds of the durable log: the entry is there and stays unchanged,  *)
(* and retrieve_memory(id) returns a record with that id whose content     *)
(* serializes to the JSON the log holds for it (the stored content itself  *)
(* when that is JSON-native)                                               *)
DurableUpToJson ==
    /\ [](DurablePresent /\ \A id \in DOMAIN stored :
            LET r == retrieve_memory(Mem, id, now)
            IN  /\ r.found /\ r.ctx.id = id
                /\ json_dumps(r.ctx.content, TRUE) = persistent[id].content
                /\ IsJsonNative(stored[id]) => r.ctx.content = stored[id])
    /\ [][DurableKept]_vars

(* a record that was evicted has just been read back from the durable log *)
ReadBackFromLog ==
    /\ ret.op = "retrieve" /\ ret.ok /\ ~ret.hit
    /\ ret.id \in DOMAIN stored
    /\ ret.id \in DOMAIN buffer

(* C5: for every content c, retrieve_memory(store_memory(c)) has content c *)
(* exactly, from the cache or from the durable log.                        *)
C5_ReadAfterWriteExact ==
    \A id \in DOMAIN stored :
        retrieve_memory(Mem, id, now).ctx.content = stored[id]

(* what holds of a read after a write: a content made of JSON-native       *)
(* values (dicts with string keys, lists, strings, numbers) is read back   *)
(* exactly, from the cache or from the durable log; any other content is   *)
(* read back from the durable log as json.loads(json.dumps(c))             *)
ReadAfterWriteUpToJson ==
    \A id \in DOMAIN stored :
        LET r == retrieve_memory(Mem, id, now)
        IN  /\ r.found
            /\ IsJsonNative(stored[id]) => r.ctx.content = stored[id]
            /\ ~r.hit => r.ctx.content = json_loads(json_dumps(stored[id], TRUE))
            /\ r.hit => r.ctx.content \in {stored[id],
                                            json_loads(json_dumps(stored[id], TRUE))}

(* a JSON-native content is stored, out of the cache, and about to be read *)
(* from the durable log                                                    *)
NativeReadFromLog ==
    \E id \in DOMAIN stored :
        /\ IsJsonNative(stored[id])
        /\ id \notin DOMAIN buffer
        /\ retrieve_memory(Mem, id, now).ctx.content = stored[id]

(* C6: after a store_memory whose durable write failed, no record of that  *)
(* call is addressable: the cache holds no entry for it.                   *)
C6_FailedStoreLeavesNothing ==
    \A id \in failed :
        id \notin DOMAIN buffer /\ ~retrieve_memory(Mem, id, now).found


(***************************************************************************)
(* Claims on the scheduler: SpecAgent.                                     *)
(***************************************************************************)
(* a step of the executor that takes an entry off the queue *)
Dequeues == Len(queue') < Len(queue)

(* a step of the executor that starts the task it dequeued *)
Starts == Len(start_order') > Len(start_order)

(* C1: the running set never holds more than max_concurrent task ids, and  *)
(* a task is dequeued and started only in a state where                    *)
(* running_count < max_concurrent.                                         *)
C1_ConcurrencyCap ==
    /\ [](Cardinality(running) <= max_concurrent)
    /\ [][(Dequeues \/ Starts) => Cardinality(running) < max_concurrent]_vars

(* the cap is reached while a task waits in the queue and the executor     *)
(* stands at its test                                                      *)
C1_Witness ==
    /\ Cardinality(running) = max_concurrent
    /\ queue # <<>>
    /\ executor_pc = "check"
    /\ start_order # <<>>

StatusRank(status) ==
    CASE status = "None" -> 0
      [] status = "running" -> 1
      [] OTHER -> 2

(* C7: for every task id the status get_task_status returns only moves     *)
(* forward along absent -> running -> terminal: a terminal status stays    *)
(* what it is, and running never goes back to absent.                      *)
C7_StatusMonotonic ==
    [][\A task_id \in 1..MaxTasks :
          /\ StatusRank(get_task_status(task_id)') >= StatusRank(get_task_status(task_id))
          /\ StatusRank(get_task_status(task_id)) = 2
                => get_task_status(task_id)' = get_task_status(task_id)]_vars

(* one task has failed, one has completed and one is running *)
C7_Witness ==
    /\ \E task_id \in 1..MaxTasks : get_task_status(task_id) = "failed"
    /\ \E task_id \in 1..MaxTasks : get_task_status(task_id) = "completed"
    /\ \E task_id \in 1..MaxTasks : get_task_status(task_id) = "running"

(* (-priority, created_at) of a is before that of b *)
KeyBefore(a, b) ==
    \/ a.np < b.np
    \/ a.np = b.np /\ a.created_at < b.created_at

(* the task a step starts is a queued one and no queued task is before it *)
ReturnsFirst ==
    [][Starts =>
         LET task_id == start_order'[Len(start_order')]
         IN  /\ \E i \in 1..Len(queue) : queue[i].task = task_id
             /\ \A i \in 1..Len(queue) : ~KeyBefore(queue[i], Entry(tasks[task_id]))]_vars

(* get_next_task on a queue that holds tasks returns one of them *)
ReturnsQueued == [][Dequeues => Starts]_vars

(* C8: get_next_task always returns a queued task with the highest         *)
(* priority among those queued and, among these, the earliest created_at.  *)
C8_PriorityOrder == ReturnsQueued /\ ReturnsFirst

(* C9: among tasks of equal priority the order of starts is the order of   *)
(* enqueues: any two started tasks of equal priority were enqueued         *)
(* (add_task) in the order they started.                                   *)
C9_StartOrder ==
    \A i, j \in 1..Len(start_order) :
        (i < j /\ tasks[start_order[i]].priority = tasks[start_order[j]].priority)
           => \E k, l \in 1..Len(enqueue_order) :
                 /\ k < l
                 /\ enqueue_order[k] = start_order[i]
                 /\ enqueue_order[l] = start_order[j]

(***************************************************************************)
(* Claims on the execution of a chain: SpecChain.                          *)
(***************************************************************************)
(* the calls of a task's chain are made one after the other, in chain      *)
(* order: call N is of plugin N and is made when N - 1 calls have ended    *)
Sequential(task_id) ==
    LET f == exec[task_id]
        chain == tasks[task_id].plugin_chain
    IN  /\ Len(f.seen) = f.invoked
        /\ f.invoked - f.returned = (IF f.pc = "plugin" THEN 1 ELSE 0)
        /\ \A n \in 1..Len(f.seen) :
               /\ n <= Len(chain)
               /\ f.seen[n].plugin = chain[n]
               /\ f.seen[n].returned = n - 1

(* the context given to plugin N holds the result of each of the plugins   *)
(* 1..N-1 under that plugin's name, and nothing under another name         *)
SeesAllBefore(task_id) ==
    LET f == exec[task_id]
        chain == tasks[task_id].plugin_chain
    IN  \A n \in 1..Len(f.seen) :
            /\ \A k \in 1..(n - 1) :
                   /\ chain[k] \in DOMAIN f.seen[n].context
                   /\ f.seen[n].context[chain[k]] = f.outs[k]
            /\ DOMAIN f.seen[n].context = {chain[k] : k \in 1..(n - 1)}

(* C10: the plugins of a chain are called strictly one after the other in  *)
(* chain order, and the context plugin N is called with holds the outputs  *)
(* of plugins 1..N-1, each under its plugin's name, and none of plugins    *)
(* N..end.                                                                 *)
C10_ChainContext ==
    \A task_id \in DOMAIN exec : Sequential(task_id) /\ SeesAllBefore(task_id)

(* what holds of the context instead: under each name it holds the result  *)
(* of the latest of the plugins 1..N-1 of that name                        *)
SeesLatestBefore(task_id) ==
    LET f == exec[task_id]
        chain == tasks[task_id].plugin_chain
    IN  \A n \in 1..Len(f.seen) :
            /\ \A k \in 1..(n - 1) :
                   (\A l \in (k + 1)..(n - 1) : chain[l] # chain[k])
                      => /\ chain[k] \in DOMAIN f.seen[n].context
                         /\ f.seen[n].context[chain[k]] = f.outs[k]
            /\ DOMAIN f.seen[n].context = {chain[k] : k \in 1..(n - 1)}

ChainSequentialLatest ==
    \A task_id \in DOMAIN exec : Sequential(task_id) /\ SeesLatestBefore(task_id)

(***************************************************************************)
(* Claims about a failing chain (checked under SpecChain).                 *)
(***************************************************************************)
(* d[key] of a Python dict, None when the key is absent *)
DictGet(d, key) ==
    IF \E i \in 1..Len(d.kids) : d.kids[i].s = key
    THEN d.kids[CHOOSE i \in 1..Len(d.kids) : d.kids[i].s = key].kids[1]
    ELSE PyNone

(* the records of the durable log that carry the tag and belong to the task *)
LogRecords(task_id, tag) ==
    {id \in DOMAIN persistent :
        LET context == get_context_value(persistent[id])
        IN  /\ tag \in TagSet(context.tags)
            /\ DictGet(context.content, S_task_id) = PyStr(IntChars(task_id))}

(* the coroutine is over and one call of execute ended without a result *)
PluginRaised(f) == f.pc \in {"finished", "recorded"} /\ f.returned > Len(f.outs)

(* C11: when plugin k of a chain raises, k is the last plugin executed,    *)
(* the task's result (and its recorded status) is failed, the durable log  *)
(* holds, for each plugin that completed before k, the intermediate record *)
(* with that plugin's output (the result's memory_contexts names it), and  *)
(* it holds no intermediate record of a later plugin                       *)
C11_ChainShortCircuit ==
    \A task_id \in DOMAIN exec :
        LET f == exec[task_id]
            task == tasks[task_id]
            k == Len(f.outs) + 1
        IN  PluginRaised(f) =>
              /\ f.invoked = k /\ f.returned = k /\ Len(f.seen) = k
              /\ f.result.status = "failed"
              /\ f.pc = "recorded" =>
                    /\ results[task_id].status = "failed"
                    /\ results[task_id].output = PyNone
                    /\ get_task_status(task_id) = "failed"
              /\ \A j \in 1..(k - 1) :
                    LET id == f.memory_contexts[j]
                    IN  /\ id \in LogRecords(task_id, S_plugin_output)
                        /\ LET content == get_context_value(persistent[id]).content
                           IN  /\ DictGet(content, S_plugin) = PyStr(task.plugin_chain[j])
                               /\ DictGet(content, S_output) = f.outs[j]
                        /\ ~f.raised => f.result.memory_contexts[j] = id
              /\ Cardinality(LogRecords(task_id, S_plugin_output)) = k - 1

(* a chain of three plugins whose second plugin raised after the first     *)
(* returned, recorded                                                      *)
C11_Witness ==
    \E task_id \in DOMAIN exec :
        /\ PluginRaised(exec[task_id])
        /\ exec[task_id].pc = "recorded"
        /\ Len(exec[task_id].outs) = 1
        /\ Len(tasks[task_id].plugin_chain) = 3

(* the coroutine is over and the plugin it looked up last was not executed *)
Rejected(f) == f.pc \in {"finished", "recorded"} /\ f.step > f.invoked

(* C15: execute is only ever called on a registered plugin; when the       *)
(* plugin of a chain step is not registered or its validate_parameters     *)
(* returns False, execute is not called for that step nor for any later    *)
(* one (the calls made are those of the steps before it), the error names  *)
(* the plugin, no intermediate record exists for that step or a later one, *)
(* and the task's result and recorded status are failed                    *)
C15_RejectedBeforeExecute ==
    \A task_id \in DOMAIN exec :
        LET f == exec[task_id]
            task == tasks[task_id]
        IN  /\ \A i \in 1..Len(f.seen) : f.seen[i].plugin \in Plugins
            /\ Rejected(f) =>
                  /\ f.step = f.invoked + 1
                  /\ Len(f.seen) = f.invoked /\ f.returned = f.invoked
                  /\ \A i \in 1..Len(f.seen) : f.seen[i].plugin = task.plugin_chain[i]
                  /\ f.result.status = "failed"
                  /\ ~f.raised =>
                        f.result.error =
                            IF task.plugin_chain[f.step] \in Plugins
                            THEN E_invalid(task.plugin_chain[f.step])
                            ELSE E_not_found(task.plugin_chain[f.step])
                  /\ Cardinality(LogRecords(task_id, S_plugin_output)) <= f.invoked
                  /\ f.pc = "recorded" =>
                        /\ results[task_id].status = "failed"
                        /\ get_task_status(task_id) = "failed"

(* a task recorded after validate_parameters of its second plugin, a       *)
(* registered one, returned False                                          *)
C15_Witness ==
    \E task_id \in DOMAIN exec :
        /\ Rejected(exec[task_id])
        /\ exec[task_id].pc = "recorded"
        /\ exec[task_id].invoked = 1
        /\ tasks[task_id].plugin_chain[2] \in Plugins

(* the coroutine is over and a store_memory call of it raised: the error   *)
(* record's (the coroutine raised) or an earlier one's                     *)
StoreFailed(f) ==
    /\ f.pc \in {"finished", "recorded"}
    /\ f.raised \/ f.result.error = E_store

(* C14: when a store_memory call of a task's trace raised, the scheduler   *)
(* loop is still running, the completion handler can run as soon as the    *)
(* coroutine is over, and once it has run the result map holds a FAILED    *)
(* TaskResult for the task and the task is out of the running set          *)
C14_ResultDespiteStoreFailure ==
    \A task_id \in DOMAIN exec :
        LET f == exec[task_id]
        IN  StoreFailed(f) =>
              /\ executor_running /\ executor_pc \in {"check", "get"}
              /\ f.pc = "finished" => task_id \in running /\ ENABLED HandleTaskCompletion
              /\ f.pc = "recorded" =>
                    /\ task_id \in DOMAIN results
                    /\ results[task_id].task_id = task_id
                    /\ results[task_id].status = "failed"
                    /\ task_id \notin running
                    /\ get_task_status(task_id) = "failed"

(* a task recorded after the store of its error record raised, the error   *)
(* being that the store of an intermediate record raised                   *)
C14_Witness ==
    \E task_id \in DOMAIN exec :
        /\ exec[task_id].pc = "recorded"
        /\ exec[task_id].raised
        /\ Len(exec[task_id].outs) >= 1
        /\ task_id \in DOMAIN results

(***************************************************************************)
(* Claims about shutdown (checked under SpecStop).                         *)
(***************************************************************************)
(* stop() has been called *)
StopCalled == executor_pc \in {"cancelled", "stopped"}

(* C12: every task that is in the running set when stop() is called, or    *)
(* after, eventually has a TaskResult recorded                             *)
C12_ShutdownRecordsRunning ==
    \A task_id \in 1..MaxStopTasks :
        (StopCalled /\ task_id \in running) ~> (task_id \in DOMAIN results)

(***************************************************************************)
(* Claims about a failing task and the scheduler loop (SpecAgent).         *)
(***************************************************************************)
(* the ids of the tasks in the queue's heap *)
Queued == {queue[i].task : i \in 1..Len(queue)}

(* a plugin that raised made its task FAILED with the exception's message, *)
(* and the loop is running                                                 *)
FailureCaught ==
    \A task_id \in DOMAIN exec :
        LET f == exec[task_id]
        IN  PluginRaised(f) =>
              /\ f.result.status = "failed" /\ ~f.raised
              /\ f.result.error = <<"b", "o", "o", "m">>
              /\ f.pc = "recorded" => results[task_id] = f.result
              /\ executor_running /\ executor_pc \in {"check", "get"}

(* every task add_task was called with is in the queue or was started *)
NoTaskLost == \A task_id \in Range(enqueue_order) :
                  task_id \in Queued \/ task_id \in Range(start_order)

(* C13: when a plugin's execute raised, its task is recorded failed with   *)
(* the error's message, the loop keeps running, and every other task that  *)
(* was queued is still in the queue or was dequeued and started            *)
C13_FailureIsolation ==
    /\ FailureCaught
    /\ (\E task_id \in DOMAIN exec : PluginRaised(exec[task_id])) => NoTaskLost

(***************************************************************************)
(* Claims about search (checked under SpecSearch).                         *)
(***************************************************************************)
(* the last operation was a search_memories call that returned *)
Searched == ret.op \in {"search", "history"} /\ ret.ok

(* the tags of the record the durable log holds under id *)
DurableTags(id) == TagSet(get_context_value(persistent[id]).tags)

(* C16: with a non-empty tags argument, every record search_memories       *)
(* returns has a tag in common with it; every record returned by           *)
(* search_task_history is tagged 'task'                                    *)
C16_TagFilter ==
    Searched =>
        /\ ret.tags # {} =>
              \A i \in 1..Len(ret.memories) :
                  /\ TagSet(ret.memories[i].tags) \cap ret.tags # {}
                  /\ DurableTags(ret.memories[i].id) \cap ret.tags # {}
        /\ ret.op = "history" =>
              \A i \in 1..Len(ret.memories) : TASK \in TagSet(ret.memories[i].tags)

(* search_task_history returned a record, passing over a candidate of the  *)
(* index that is not tagged 'task'                                         *)
C16_Witness ==
    /\ Searched /\ ret.op = "history"
    /\ Len(ret.memories) >= 1
    /\ ret.similar_ids # <<>>
    /\ TASK \notin DurableTags(ret.similar_ids[1])

(* the ids of the candidates, in order, whose record matches the tags *)
RECURSIVE Matching(_, _)
Matching(ids, tags) ==
    IF ids = <<>> THEN <<>>
    ELSE IF /\ Head(ids) \in DOMAIN persistent
            /\ tags = {} \/ DurableTags(Head(ids)) \cap tags # {}
    THEN <<Head(ids)>> \o Matching(Tail(ids), tags)
    ELSE Matching(Tail(ids), tags)

C18_FallbackOverDurableLog ==
    (Searched /\ ~chromadb_available) =>
        \A id \in DOMAIN persistent :
            IsSubstring(Lower(ret.query), Lower(json_text(persistent[id].content)))
                => id \in Range(simple_search(vector_store, ret.query, next_id))

(***************************************************************************)
(* Claims about submit_task (checked under SpecChain).                     *)
(***************************************************************************)
(* the task's context_id names a record of the durable log tagged 'task'   *)
(* and 'pending' whose content is the given one                            *)
PendingRecord(task, content) ==
    /\ task.context_id \in DOMAIN persistent
    /\ LET context == get_context_value(persistent[task.context_id])
       IN  /\ {TASK, S_pending} \subseteq TagSet(context.tags)
           /\ context.content = content

(* a task is known to the queue only through add_task, and every task      *)
(* add_task was called with is in the queue or was started                 *)
QueuedBySubmit ==
    /\ DOMAIN tasks = Range(enqueue_order)
    /\ Queued \cup Range(start_order) \cup DOMAIN exec \subseteq DOMAIN tasks
    /\ \A task_id \in DOMAIN tasks :
          task_id \in Queued \/ task_id \in Range(start_order)

(* C19: every task that was enqueued (and so every task queued, started    *)
(* or executed) has, under its context_id, a durably stored record tagged  *)
(* 'task' and 'pending' whose content is the submission (task id, name,    *)
(* plugin chain, parameters) verbatim; a submit_task whose store raised    *)
(* enqueued nothing                                                        *)
C19_PendingBeforeEnqueue ==
    /\ QueuedBySubmit
    /\ \A task_id \in DOMAIN tasks :
          PendingRecord(tasks[task_id], task_context(tasks[task_id]))

(* the same with the content as json writes and reads it back *)
PendingUpToJson ==
    /\ QueuedBySubmit
    /\ \A task_id \in DOMAIN tasks :
          PendingRecord(tasks[task_id],
                        json_loads(json_dumps(task_context(tasks[task_id]), TRUE)))

(***************************************************************************)
(* Claims about the end-to-end path (checked under SpecLive).              *)
(***************************************************************************)
(* search_task_history(query, limit = 1), called in this state with a      *)
(* query of the fallback index, returns a record, tagged 'task'            *)
HistoryFound ==
    \A query \in Queries :
        \E r \in {search_loop(simple_search(vector_store, query, 2), Mem, <<>>,
                              {TASK}, 1, now, 0)} :
            /\ Len(r.memories) >= 1
            /\ \A i \in 1..Len(r.memories) : TASK \in TagSet(r.memories[i].tags)

(* the result recorded for a task whose plugin returned Result1 *)
CompletedRight ==
    \A task_id \in DOMAIN results :
        results[task_id].status = "completed" =>
            /\ results[task_id].output =
                   OutputDict(tasks[task_id].plugin_chain,
                              [n \in Range(tasks[task_id].plugin_chain) |-> Result1])
            /\ HistoryFound

(* the task is completed, or it is where the loop will take it from: in   *)
(* the queue, or running with its coroutine not yet recorded               *)
CanStillComplete(task_id) ==
    \/ get_task_status(task_id) = "completed"
    \/ task_id \in Queued
    \/ task_id \in running /\ exec[task_id].pc \in {"created", "plugin", "finished"}

(* C20: with the loop running and plugins that return, every task whose    *)
(* submit_task returned eventually has status completed: in every state    *)
(* it is completed or still on its way (a state where it is neither is one *)
(* no run completes it from); its output holds each plugin's result under  *)
(* the plugin's name, and from then on search_task_history with a matching *)
(* query returns a record tagged 'task'                                    *)
C20_EndToEnd ==
    /\ \A task_id \in DOMAIN tasks :
          tasks[task_id].returned => CanStillComplete(task_id)
    /\ CompletedRight

(***************************************************************************)
(* Claims about the recording of results and the status read.              *)
(***************************************************************************)
(* C21: a result is recorded exactly once per task id.  In every step: a   *)
(* task that is started had not been started before; a result that is      *)
(* recorded is the first one of its id, and its id was running and leaves  *)
(* the running set; and a result once recorded stays as it is.             *)
C21_ResultOnce ==
    [][/\ start_order' # start_order =>
              \E task_id \in DOMAIN tasks :
                  /\ task_id \notin Range(start_order)
                  /\ start_order' = Append(start_order, task_id)
       /\ \A task_id \in DOMAIN results' \ DOMAIN results :
              task_id \in running /\ task_id \notin running'
       /\ \A task_id \in DOMAIN results :
              task_id \in DOMAIN results' /\ results'[task_id] = results[task_id]
      ]_vars

(* both tasks were started and have their results, one of them failed *)
C21_Witness ==
    /\ Len(start_order) = 2
    /\ DOMAIN results = Range(start_order)
    /\ running = {}
    /\ \E task_id \in DOMAIN results : results[task_id].status = "failed"
    /\ \E task_id \in DOMAIN results : results[task_id].status = "completed"

(* C22: get_task_status(id) is "running" exactly when id is in the running *)
(* set; otherwise it is the status of the recorded result when there is    *)
(* one; otherwise it is None, which is the answer for an id never          *)
(* submitted and for a task still in the queue.                            *)
C22_StatusRead ==
    \A task_id \in 1..(MaxTasks + 1) :
        /\ get_task_status(task_id) = "running" <=> task_id \in running
        /\ task_id \notin running /\ task_id \in DOMAIN results
               => get_task_status(task_id) = results[task_id].status
        /\ task_id \notin running /\ task_id \notin DOMAIN results
               => get_task_status(task_id) = "None"
        /\ task_id \in Queued \/ task_id > next_task
               => get_task_status(task_id) = "None"

(* one task is queued, one is running, one has its result *)
C22_Witness ==
    /\ next_task = 3
    /\ \E task_id \in Queued : get_task_status(task_id) = "None"
    /\ \E task_id \in running : get_task_status(task_id) = "running"
    /\ \E task_id \in DOMAIN results :
           get_task_status(task_id) = results[task_id].status

(***************************************************************************)
(* Claims about reads of the memory engine (checked under SpecMem).        *)
(***************************************************************************)
(* C23: reads have no effect on stored records.  A step whose operation is *)
(* retrieve_memory or search_memories leaves the durable log, the search   *)
(* index, the ids drawn and the session as they are; of the cache it       *)
(* changes only which ids are held and their access times: every record    *)
(* held after the step is held under its own id and is the record held     *)
(* before the step or the record the durable log has under that id (a      *)
(* record loaded by the read); one retrieve_memory call changes no record  *)
(* that it leaves in the cache.                                            *)
C23_ReadsChangeNothing ==
    [][ret'.op \in {"retrieve", "search"} =>
           /\ ret'.op = "retrieve" =>
                  \A k \in DOMAIN buffer \cap DOMAIN buffer' : buffer'[k] = buffer[k]
           /\ persistent' = persistent
           /\ vector_store' = vector_store
           /\ next_id' = next_id /\ stored' = stored
           /\ session' = session /\ closed' = closed
           /\ Keys(access_times') = DOMAIN buffer'
           /\ \A k \in DOMAIN buffer' :
                  /\ buffer'[k].id = k
                  /\ \/ k \in DOMAIN buffer /\ buffer'[k] = buffer[k]
                     \/ /\ k \in DOMAIN persistent
                        /\ buffer'[k] = get_context_value(persistent[k])
      ]_vars

(* a search returned a record it had to load from the durable log, and the *)
(* load evicted another record from the cache                              *)
C23_Witness ==
    /\ ret.op = "search" /\ ret.ok /\ ret.n >= 1
    /\ evictions # <<>>
    /\ now > 0

(***************************************************************************)
(* Claims about get_next_task and the scheduler loop (SpecAgent).          *)
(***************************************************************************)
(* the executor's step from get_next_task back to the head of its loop *)
GetStep == executor_pc = "get" /\ executor_pc' # executor_pc

(* on an empty queue nothing is removed and nothing is started, and the    *)
(* loop is at its head again                                               *)
GetOnEmpty ==
    queue = <<>> => /\ queue' = queue
                    /\ start_order' = start_order
                    /\ executor_pc' = "check"

(* on a non-empty queue the head entry is removed, its task is the one     *)
(* returned (and started), the other entries stay queued, and the loop is  *)
(* at its head again                                                       *)
GetOnNonEmpty ==
    queue # <<>> => /\ Len(queue') = Len(queue) - 1
                    /\ Queued' = Queued \ {queue[1].task}
                    /\ start_order' = Append(start_order, queue[1].task)
                    /\ executor_pc' = "check"

(* when a pop raises, the head entry is removed all the same, no task is   *)
(* returned, and the loop is at its head again                             *)
GetReturnsHeadOrRaises ==
    [][GetStep =>
           /\ GetOnEmpty
           /\ queue # <<>> =>
                  /\ Queued' = Queued \ {queue[1].task}
                  /\ \/ start_order' = Append(start_order, queue[1].task)
                     \/ /\ heappop(queue).err
                        /\ start_order' = start_order
                  /\ executor_pc' = "check"]_vars

(* C24: get_next_task on an empty queue returns None and removes nothing;  *)
(* on a non-empty queue it removes and returns exactly the head task; in   *)
(* both cases the scheduler loop is back at its head.                      *)
C24_GetNextTask == [][GetStep => GetOnEmpty /\ GetOnNonEmpty]_vars

(***************************************************************************)
(* Claims about start() and stop() (checked under SpecStop).               *)
(***************************************************************************)
(* C25: close() and stop() are idempotent.  Every close() call returns     *)
(* without an error, the one made by a stop() without a prior start() and  *)
(* the repeated ones included; a close() of an engine that is closed and   *)
(* whose cache is empty (the state a close() leaves) changes nothing of    *)
(* the engine; and a stop() of an agent that is stopped and closed changes *)
(* nothing of the agent.                                                   *)
C25_CloseIdempotent ==
    [][(StopClose \/ StopIdle) =>
           /\ ret'.op = "close" /\ ret'.ok
           /\ closed' /\ buffer' = <<>> /\ access_times' = <<>>
           /\ closed /\ buffer = <<>> /\ access_times = <<>> =>
                  /\ ret'.again
                  /\ UNCHANGED <<persistent, vector_store, next_id, stored,
                                 failed, session>>
                  /\ StopIdle => UNCHANGED <<agentvars, loopvars>>
      ]_vars

(* stop() was called again on an agent that was never started and had     *)
(* been stopped, and returned                                              *)
C25_Witness ==
    /\ ret.op = "close" /\ ret.again /\ ret.ok
    /\ executor_task = 0
    /\ closed /\ ~executor_running

(* the _task_executor Tasks that are running their loop: not ended and not *)
(* cancelled                                                               *)
ActiveLoops(l) == {k \in DOMAIN l : l[k] \in {"check", "get"}}

(* a start() while the flag is set creates no Task *)
StartOnlyWhenClear == [][executor_running => executor_task' = executor_task]_vars

(* a stop() returns from its await only when the Task it awaits has ended *)
StopReturnsAfterLoop ==
    [][\A k \in DOMAIN stop_awaits :
           (k \notin DOMAIN stop_awaits' \/ stop_awaits'[k] < stop_awaits[k])
               => k \notin DOMAIN loops]_vars

(* C26: at most one scheduler loop is active under every interleaving of   *)
(* start() and stop() calls: a start() while the loop runs creates no      *)
(* second one, a stop() returns only after the loop it cancelled has       *)
(* ended, and never are two loops running.                                 *)
C26_OneLoop ==
    [][/\ executor_running => executor_task' = executor_task
       /\ \A k \in DOMAIN stop_awaits :
              (k \notin DOMAIN stop_awaits' \/ stop_awaits'[k] < stop_awaits[k])
                  => k \notin DOMAIN loops
       /\ Cardinality(ActiveLoops(loops')) <= 1]_vars

(***************************************************************************)
(* Claims about the trace of a task in the memory engine (SpecChain).      *)
(***************************************************************************)
(* the records of the durable log written while the task was executed: its *)
(* intermediate records and its trailing completed or failed record        *)
ExecRecords(task_id) ==
    LogRecords(task_id, S_plugin_output) \cup LogRecords(task_id, S_completed)
        \cup LogRecords(task_id, S_failed)

(* the recorded result was made by _handle_task_completion's except branch, *)
(* which passes no memory_contexts: the field is None                      *)
ContextsNone(task_id) == exec[task_id].raised

(* the result's memory_contexts is a list, of exactly the task's records   *)
(* of the durable log, in the order of their creation: the intermediate    *)
(* records first, the trailing record last                                 *)
ContextsRight(task_id) ==
    /\ ~ContextsNone(task_id)
    /\ LET memory_contexts == results[task_id].memory_contexts
           n == Len(memory_contexts)
       IN  /\ Range(memory_contexts) = ExecRecords(task_id)
           /\ \A i, j \in 1..n : i < j => memory_contexts[i] < memory_contexts[j]
           /\ n >= 1
           /\ \A i \in 1..(n - 1) :
                  memory_contexts[i] \in LogRecords(task_id, S_plugin_output)
           /\ memory_contexts[n] \in
                  LogRecords(task_id, S_completed) \cup LogRecords(task_id, S_failed)

(* what holds of every result the coroutine returned: its list is right,   *)
(* and it has one intermediate record per completed step unless the store  *)
(* of one raised                                                           *)
ContextsRightWhenReturned ==
    \A task_id \in DOMAIN results :
        LET f == exec[task_id]
        IN  ~f.raised =>
              /\ ContextsRight(task_id)
              /\ f.result.error # E_store =>
                     Len(results[task_id].memory_contexts) = Len(f.outs) + 1

(* C27: the memory_contexts of every recorded TaskResult is the list of    *)
(* the ids of the records created while the task was executed, one per     *)
(* completed step and then the trailing completed or failed record, in     *)
(* creation order, and each id is that of a record in the durable log      *)
C27_MemoryContexts ==
    \A task_id \in DOMAIN results : ContextsRight(task_id)

(***************************************************************************)
(* Claims about the two tiers of the memory engine (SpecMem).              *)
(***************************************************************************)
(* the record the durable log holds under the id, as get_context loads it *)
DurableRecord(id) == get_context_value(persistent[id])

(* what holds of the two tiers: a cached record whose durable write did    *)
(* not fail has an entry in the durable log with its tags and timestamp,   *)
(* and with its content as json.loads(json.dumps(c)) makes it, which is    *)
(* the content itself when that is made of JSON-native values              *)
CacheCoherentUpToJson ==
    \A id \in DOMAIN buffer \ failed :
        /\ id \in DOMAIN persistent
        /\ DurableRecord(id).tags = buffer[id].tags
        /\ DurableRecord(id).timestamp = buffer[id].timestamp
        /\ DurableRecord(id).content \in
               {buffer[id].content, json_loads(json_dumps(buffer[id].content, TRUE))}
        /\ IsJsonNative(buffer[id].content) =>
               DurableRecord(id).content = buffer[id].content

(* C28: every record held in the cache has an entry of the same id in the  *)
(* durable log whose content, tags and timestamp equal the cached ones, so *)
(* retrieve_memory returns the same record from either tier                *)
C28_CacheCoherence ==
    \A id \in DOMAIN buffer :
        /\ id \in DOMAIN persistent
        /\ DurableRecord(id).content = buffer[id].content
        /\ DurableRecord(id).tags = buffer[id].tags
        /\ DurableRecord(id).timestamp = buffer[id].timestamp

(***************************************************************************)
(* Claims about add_task on tasks of equal rank (SpecAgent).               *)
(***************************************************************************)
(* what holds of add_task: a task whose (priority, created_at) differs     *)
(* from that of every entry of the heap is pushed without an error         *)
AddTaskAcceptsDistinct ==
    [][\A task_id \in DOMAIN tasks' \ DOMAIN tasks :
           (\A i \in 1..Len(queue) :
                <<queue[i].np, queue[i].created_at>> #
                    <<-tasks'[task_id].priority, tasks'[task_id].created_at>>)
              => tasks'[task_id].returned]_vars

(* C29: add_task accepts every task, whatever the queue holds: it raises   *)
(* for no task, two tasks of equal priority and created_at included, and   *)
(* every task it was called with is in the queue until get_next_task       *)
(* returns it                                                              *)
C29_AddTaskAcceptsTies ==
    /\ \A task_id \in DOMAIN tasks : tasks[task_id].returned
    /\ \A task_id \in Range(enqueue_order) :
           task_id \in Queued \/ task_id \in Range(start_order)

(***************************************************************************)
(* Claims about the steps of a chain (SpecChain).                          *)
(***************************************************************************)
(* the 'step' field of the k-th intermediate record of the task is k *)
StepsNumbered(task_id) ==
    LET memory_contexts == exec[task_id].memory_contexts
    IN  \A k \in 1..Len(memory_contexts) :
            memory_contexts[k] \in LogRecords(task_id, S_plugin_output) =>
                DictGet(DurableRecord(memory_contexts[k]).content, S_step)
                    = PyInt(IntChars(k))

(* the output of the task's completed result holds the result of each of   *)
(* the steps executed, and nothing else                                    *)
OutputComplete(task_id) ==
    (task_id \in DOMAIN results /\ results[task_id].status = "completed") =>
        LET f == exec[task_id]
            output == results[task_id].output
        IN  /\ Len(output.kids) = Len(f.outs)
            /\ \A k \in 1..Len(f.outs) :
                   DictGet(output, tasks[task_id].plugin_chain[k]) = f.outs[k]

(* no plugin name occurs twice in the chain *)
DistinctNames(chain) ==
    \A i, j \in 1..Len(chain) : i # j => chain[i] # chain[j]

(* what holds of the steps: they are recorded separately in every chain    *)
(* of distinct plugin names                                                *)
StepsSeparateWhenDistinct ==
    \A task_id \in DOMAIN exec :
        DistinctNames(tasks[task_id].plugin_chain) =>
            StepsNumbered(task_id) /\ OutputComplete(task_id)

(* C30: in every chain, one that names a plugin more than once included,   *)
(* each executed step is recorded separately: the 'step' field of the      *)
(* k-th intermediate record is k, and the output of the completed          *)
(* TaskResult holds the result of every executed step                      *)
C30_StepsSeparate ==
    \A task_id \in DOMAIN exec : StepsNumbered(task_id) /\ OutputComplete(task_id)

====
